---- MODULE Spec2Model ----
(***************************************************************************)
(* PinchBench API: the submission intake (POST /api/results), the token    *)
(* registration (POST /api/register) and the administrative delete, as     *)
(* state machines over the D1 tables of schema.sql.  Every handler is      *)
(* split at its awaited database statements, which are the only points at  *)
(* which two requests interleave.                                          *)
(***************************************************************************)
EXTENDS Integers, Sequences, FiniteSets, TLC

VARIABLES
  submissions,                \* table submissions, in insertion order
  tokens,                     \* table tokens
  token_registration_limits,  \* table token_registration_limits
  benchmark_versions,         \* table benchmark_versions
  now,                        \* the wall clock of the store, in hours
  pc,                         \* per request slot: the statement it is at
  req,                        \* per request slot: the handler's locals
  resp,                       \* per request slot: the response
  nreq,                       \* requests started so far
  hist,                       \* history: what a sequential client has seen
  raw_post_logs,              \* table raw_post_logs
  jwksCache,                  \* the worker's cached key set, or Null
  jwksCacheTime,              \* the time the worker holds for its cache
  dateNow,                    \* Date.now() of the worker, in milliseconds
  fetches                     \* the times of the requests for the key set

\* The cache of the keys, the worker's clock and the identity provider's log
keyVars == <<jwksCache, jwksCacheTime, dateNow, fetches>>

vars == <<submissions, tokens, token_registration_limits, benchmark_versions,
          now, pc, req, resp, nreq, hist, raw_post_logs, keyVars>>

-----------------------------------------------------------------------------
(* Bounds of the model *)

\* requests started in one behaviour of Spec
MaxRequests == 2
\* requests started in one behaviour of SpecVersions
MaxVersionRequests == 2
\* rows of the population that SpecRank starts from
MaxScopeRows == 2
MaxScopeRequests == 1
MaxClaimRequests == 4
MaxClaimTime == 1
MaxLogRequests == 3
MaxLogTime == 1
\* requests started in one behaviour of SpecKeys, and the advances of the
\* worker's clock
MaxKeyRequests == 3
MaxKeyTicks == 3
\* requests started in one behaviour of SpecClock
MaxClockRequests == 2
\* requests started in one behaviour of SpecQuota
MaxQuotaRequests == 2
\* rows stored, and requests started in one behaviour, in SpecBoard
MaxBoardRows == 3
MaxBoardRequests == 1
\* requests started in one behaviour of SpecReject
MaxRejectRequests == 2
\* requests started in one behaviour of SpecRace
MaxRaceRequests == 2
\* requests started in one behaviour of SpecSwitch
MaxSwitchRequests == 3
\* requests started in one behaviour of SpecConfirm
MaxConfirmRequests == 2
\* the clock of SpecConfirm stops here
MaxConfirmTime == 2
\* requests started in one behaviour of SpecForget
MaxForgetRequests == 2
\* requests started in one behaviour of SpecLatest
MaxLatestRequests == 3
\* the clock of SpecLatest stops here
MaxLatestTime == 1
\* requests started in one behaviour of SpecFault
MaxFaultRequests == 2
MaxPopulation == 3
\* requests started in one behaviour of SpecRank
MaxRankRequests == 2
\* requests started in one behaviour of SpecSeq
MaxSeqRequests == 2
\* requests started in one behaviour of SpecRegister
MaxRegistrations == 3
\* last value of the clock, in hours
MaxTime == 25
\* last value of the clock in SpecRegister, in hours
MaxRegisterTime == 2

-----------------------------------------------------------------------------
(* JavaScript values, tagged with what typeof answers *)

Num(n) == [type |-> "number", val |-> n]
Str(s) == [type |-> "string", val |-> s]
Bool(b) == [type |-> "boolean", val |-> b]
Undefined == [type |-> "undefined", val |-> "undefined"]
Null == [type |-> "null", val |-> "null"]
Arr(xs) == [type |-> "array", val |-> xs]
Obj(fields) == [type |-> "object", val |-> fields]

\* typeof v
Typeof(v) == IF v.type \in {"null", "array"} THEN "object" ELSE v.type

\* ToBoolean(v), for the kinds of value the handlers test
Truthy(v) ==
  CASE v.type = "undefined" -> FALSE
    [] v.type = "null" -> FALSE
    [] v.type = "number" -> v.val # 0
    [] v.type = "string" -> v.val # <<>>
    [] OTHER -> TRUE

IsNullish(v) == v = Undefined \/ v = Null
\* v ?? d
Coalesce(v, d) == IF IsNullish(v) THEN d ELSE v

\* Strings that the code inspects are sequences of one-character strings.
Rep(c, n) == [i \in 1..n |-> c]

WhiteSpace == {" ", "\t", "\n"}

RECURSIVE TrimStart(_)
TrimStart(s) ==
  IF s # <<>> /\ Head(s) \in WhiteSpace THEN TrimStart(Tail(s)) ELSE s

RECURSIVE TrimEnd(_)
TrimEnd(s) ==
  IF s # <<>> /\ s[Len(s)] \in WhiteSpace
  THEN TrimEnd(SubSeq(s, 1, Len(s) - 1))
  ELSE s

\* String.prototype.trim
Trim(s) == TrimEnd(TrimStart(s))

HexChars ==
  {"0", "1", "2", "3", "4", "5", "6", "7", "8", "9",
   "a", "b", "c", "d", "e", "f", "A", "B", "C", "D", "E", "F"}

\* /^[0-9a-f]{8}-[0-9a-f]{4}-4[0-9a-f]{3}-[89ab][0-9a-f]{3}-[0-9a-f]{12}$/i
UUID_V4_REGEX(s) ==
  /\ Len(s) = 36
  /\ \A i \in 1..36 :
       IF i \in {9, 14, 19, 24} THEN s[i] = "-"
       ELSE IF i = 15 THEN s[i] = "4"
       ELSE IF i = 20 THEN s[i] \in {"8", "9", "a", "b", "A", "B"}
       ELSE s[i] \in HexChars

DigitChar(d) == <<"0", "1", "2", "3", "4", "5", "6", "7", "8", "9">>[d + 1]

\* The version-4 UUID whose last group is the number k (k < 1000).
Uuid(k) ==
  Rep("b", 8) \o <<"-">> \o Rep("1", 4) \o <<"-">> \o <<"4">> \o Rep("f", 3)
    \o <<"-">> \o <<"8">> \o Rep("0", 3) \o <<"-">> \o Rep("0", 9)
    \o <<DigitChar(k \div 100), DigitChar((k \div 10) % 10), DigitChar(k % 10)>>

\* The same identifier with version digit 1: not a version-4 UUID.
UuidV1(k) == [Uuid(k) EXCEPT ![15] = "1"]

\* Timestamps are opaque to the code except for Date.parse.
TimestampValid == "2026-02-13T10:00:00Z"
TimestampOther == "1999-01-01T00:00:00Z"
TimestampGarbage == "yesterday"

\* Date.parse on the sample strings: a finite number of milliseconds, or NaN
DateParse(value) ==
  IF value \in {TimestampValid, TimestampOther} THEN "finite" ELSE "NaN"

\* isIsoTimestamp
isIsoTimestamp(value) ==
  IF value = "" THEN FALSE ELSE DateParse(value) = "finite"

-----------------------------------------------------------------------------
(* Score percentages are the exact quotients total/max, kept as reduced     *)
(* fractions with a positive denominator.                                   *)

Abs(n) == IF n < 0 THEN -n ELSE n

RECURSIVE GCD(_, _)
GCD(a, b) == IF b = 0 THEN a ELSE GCD(b, a % b)

Frac(n, d) ==
  LET g == GCD(Abs(n), Abs(d))
      s == IF d < 0 THEN -1 ELSE 1
  IN [n |-> (s * n) \div g, d |-> (s * d) \div g]

FracZero == [n |-> 0, d |-> 1]
FracOne == [n |-> 1, d |-> 1]

FracLess(a, b) == a.n * b.d < b.n * a.d
FracLeq(a, b) == a.n * b.d <= b.n * a.d

\* payload.max_score === 0 ? 0 : payload.total_score / payload.max_score
computedScorePercentage(total_score, max_score) ==
  IF max_score = 0 THEN FracZero ELSE Frac(total_score, max_score)

-----------------------------------------------------------------------------
(* POST /api/results: validation of the payload                             *)

Detail(msg, index) == [msg |-> msg, index |-> index]

MsgSubmissionId == "submission_id must be a valid UUID v4"
MsgTimestamp == "timestamp must be ISO 8601 format"
MsgModel == "model is required and must be non-empty"
MsgTasks == "tasks must have at least one entry"
MsgScoreType == "total_score and max_score must be numbers"
MsgScoreOrder == "total_score must be less than or equal to max_score"
MsgTaskType == "tasks[i].score and max_score must be numbers"
MsgTaskOrder == "tasks[i].score must be between 0 and max_score"

\* Reading a property of v throws a TypeError when v is null or undefined.
PropertyReadThrows(v) == IsNullish(v)

\* !UUID_V4_REGEX.test(payload.submission_id ?? "")
SubmissionIdDetails(payload) ==
  LET value == Coalesce(payload.submission_id, Str(<<>>))
  IN IF UUID_V4_REGEX(value.val) THEN <<>> ELSE <<Detail(MsgSubmissionId, -1)>>

\* !isIsoTimestamp(payload.timestamp ?? "")
TimestampDetails(payload) ==
  LET value == Coalesce(payload.timestamp, Str(""))
  IN IF isIsoTimestamp(value.val) THEN <<>> ELSE <<Detail(MsgTimestamp, -1)>>

\* payload.model.trim() is a TypeError when model is truthy and no string
ModelThrows(payload) ==
  Truthy(payload.model) /\ payload.model.type # "string"

\* !payload.model || !payload.model.trim()
ModelDetails(payload) ==
  IF ~Truthy(payload.model) \/ Trim(payload.model.val) = <<>>
  THEN <<Detail(MsgModel, -1)>>
  ELSE <<>>

IsArray(v) == v.type = "array"

\* !Array.isArray(payload.tasks) || payload.tasks.length === 0
TasksDetails(payload) ==
  IF ~IsArray(payload.tasks) \/ Len(payload.tasks.val) = 0
  THEN <<Detail(MsgTasks, -1)>>
  ELSE <<>>

\* The typeof test alone
ScorePairDetailsTypeOnly(score, max_score, msgType, msgOrder, index) ==
  IF Typeof(score) # "number" \/ Typeof(max_score) # "number"
  THEN <<Detail(msgType, index)>>
  ELSE <<>>

\* the typeof test and the comparison of one pair of scores
ScorePairDetails(score, max_score, msgType, msgOrder, index) ==
  IF Typeof(score) # "number" \/ Typeof(max_score) # "number"
  THEN <<Detail(msgType, index)>>
  ELSE IF score.val > max_score.val
  THEN <<Detail(msgOrder, index)>>
  ELSE <<>>

TotalScoreDetails(payload) ==
  ScorePairDetails(payload.total_score, payload.max_score,
                   MsgScoreType, MsgScoreOrder, -1)

\* payload.tasks.forEach((task, index) => ...): task.score on a null entry
TaskLoopThrows(payload) ==
  /\ IsArray(payload.tasks)
  /\ \E i \in DOMAIN payload.tasks.val : PropertyReadThrows(payload.tasks.val[i])

RECURSIVE TaskLoop(_, _)
TaskLoop(tasks, i) ==
  IF i > Len(tasks) THEN <<>>
  ELSE ScorePairDetails(tasks[i].val.score, tasks[i].val.max_score,
                        MsgTaskType, MsgTaskOrder, i - 1)
       \o TaskLoop(tasks, i + 1)

TaskDetails(payload) ==
  IF IsArray(payload.tasks) THEN TaskLoop(payload.tasks.val, 1) ELSE <<>>

\* Lines 101-139 of the handler: the list of violations, or an exception.
Validate(payload) ==
  IF ModelThrows(payload) \/ TaskLoopThrows(payload)
  THEN [threw |-> TRUE, details |-> <<>>]
  ELSE [threw |-> FALSE,
        details |-> SubmissionIdDetails(payload) \o TimestampDetails(payload)
                    \o ModelDetails(payload) \o TasksDetails(payload)
                    \o TotalScoreDetails(payload) \o TaskDetails(payload)]

\* A task entry as the client serialises it
Task(score, max_score) == Obj([score |-> score, max_score |-> max_score])

\* JSON.stringify(payload.tasks ?? []) of an accepted payload, read back by
\* JSON.parse: the numeric score and max_score of every entry
StoredTasks(tasks) ==
  LET arr == Coalesce(tasks, Arr(<<>>))
  IN [i \in DOMAIN arr.val |->
        [score |-> arr.val[i].val.score.val,
         max_score |-> arr.val[i].val.max_score.val]]

-----------------------------------------------------------------------------
(* The tables                                                               *)

\* datetime('now', '-1 day') and datetime('now', '-1 hour'), in hours
HoursPerDay == 24
HoursPerHour == 1
\* (dailyCountRow?.total ?? 0) >= 100
DAILY_SUBMISSION_LIMIT == 100
MAX_REGISTRATIONS_PER_HOUR == 10
CLAIM_TTL_HOURS == 24

\* hashToken: SHA-256 of the secret, in hex
hashToken(token) == <<"sha256", token>>

\* `pb_live_${randomHex(32)}` for the k-th draw of the random source
Secret(k) == <<"pb_live_", k>>
\* crypto.randomUUID() for the k-th draw
TokenId(k) == <<"token", k>>
\* randomHex(12) for the k-th draw
ClaimCode(k) == <<"claim", k>>

\* A tokens row as POST /api/register inserts it at time t
NewTokenRow(k, t) ==
  [id |-> TokenId(k), token_hash |-> hashToken(Secret(k)),
   claim_code |-> Str(ClaimCode(k)), claim_expires_at |-> Num(t + CLAIM_TTL_HOURS),
   claimed_at |-> Null, created_at |-> t, last_used_at |-> Null]

\* A lookup that passes over the unclaimed rows
SelectTokenByHashClaimedOnly(table, hash) ==
  LET hit == {i \in DOMAIN table : /\ table[i].token_hash = hash
                                   /\ table[i].claimed_at # Null}
  IN IF hit = {} THEN Null
     ELSE Obj([id |-> table[CHOOSE i \in hit : \A j \in hit : i <= j].id])

\* SELECT id FROM tokens WHERE token_hash = ? LIMIT 1
SelectTokenByHash(table, hash) ==
  LET hit == {i \in DOMAIN table : table[i].token_hash = hash}
  IN IF hit = {} THEN Null
     ELSE Obj([id |-> table[CHOOSE i \in hit : \A j \in hit : i <= j].id])

\* A lookup that finds no row
SelectSubmissionNever(table, id) == Null

\* SELECT id, score_percentage FROM submissions WHERE id = ? LIMIT 1
SelectSubmissionById(table, id) ==
  LET hit == {i \in DOMAIN table : table[i].id = id}
  IN IF hit = {} THEN Null
     ELSE LET r == table[CHOOSE i \in hit : \A j \in hit : i <= j]
          IN Obj([id |-> r.id, score_percentage |-> r.score_percentage])

\* A count over the rows of every token
DailyCountAnyToken(table, token_id, t) ==
  Cardinality({i \in DOMAIN table : table[i].created_at >= t - 24})

\* SELECT COUNT(*) FROM submissions
\*   WHERE token_id = ? AND created_at >= datetime('now', '-1 day')
DailyCount(table, token_id, t) ==
  Cardinality({i \in DOMAIN table :
                 table[i].token_id = token_id
                 /\ table[i].created_at >= t - HoursPerDay})

\* A table without the key
PrimaryKeyNotEnforced(table, id) == FALSE

\* submissions.id TEXT PRIMARY KEY: the insert is refused when the key is taken
PrimaryKeyTaken(table, id) == \E i \in DOMAIN table : table[i].id = id

\* The row that the INSERT of the handler binds
SubmissionRow(payload, token_id, score_percentage, t) ==
  [id |-> payload.submission_id.val,
   token_id |-> token_id,
   model |-> payload.model.val,
   provider |-> Coalesce(payload.provider, Null),
   total_score |-> payload.total_score.val,
   max_score |-> payload.max_score.val,
   score_percentage |-> score_percentage,
   timestamp |-> payload.timestamp.val,
   benchmark_version |-> Coalesce(payload.benchmark_version, Null),
   tasks |-> StoredTasks(payload.tasks),
   created_at |-> t]

\* The default of the column benchmark_versions.hidden, which schema.sql does
\* not declare: a version is created not hidden
HiddenDefault == 0

\* the row taken as the current version from the start
InsertOrIgnoreVersionAsCurrent(table, id, t) ==
  IF \E i \in DOMAIN table : table[i].id = id
  THEN table
  ELSE Append(table, [id |-> id, created_at |-> t, current |-> 1,
                      hidden |-> HiddenDefault])

\* INSERT OR IGNORE INTO benchmark_versions (id, current) VALUES (?, 0)
InsertOrIgnoreVersion(table, id, t) ==
  IF \E i \in DOMAIN table : table[i].id = id
  THEN table
  ELSE Append(table, [id |-> id, created_at |-> t, current |-> 0,
                      hidden |-> HiddenDefault])

\* SELECT id FROM benchmark_versions WHERE id = ?
SelectVersionById(table, id) ==
  IF \E i \in DOMAIN table : table[i].id = id THEN Obj([id |-> id]) ELSE Null

\* UPDATE benchmark_versions SET current = 0
ClearCurrent(table) == [i \in DOMAIN table |-> [table[i] EXCEPT !.current = 0]]

\* UPDATE benchmark_versions SET current = 1 WHERE id = ?
SetCurrent(table, id) ==
  [i \in DOMAIN table |->
     IF table[i].id = id THEN [table[i] EXCEPT !.current = 1] ELSE table[i]]

\* UPDATE benchmark_versions SET hidden = ? WHERE id = ?
SetHidden(table, id, hidden) ==
  [i \in DOMAIN table |->
     IF table[i].id = id THEN [table[i] EXCEPT !.hidden = hidden] ELSE table[i]]

\* SELECT id, claimed_at FROM tokens WHERE id = ?
SelectTokenById(table, id) ==
  LET hit == {i \in DOMAIN table : table[i].id = id}
  IN IF hit = {} THEN Null
     ELSE LET r == table[CHOOSE i \in hit : \A j \in hit : i <= j]
          IN Obj([id |-> r.id, claimed_at |-> r.claimed_at])

\* the claim code and its expiry left in the row
ConfirmTokenKeepingCode(table, id, t) ==
  [i \in DOMAIN table |->
     IF table[i].id = id THEN [table[i] EXCEPT !.claimed_at = Num(t)]
     ELSE table[i]]

\* UPDATE tokens SET claimed_at = datetime('now'), claim_code = NULL,
\*   claim_expires_at = NULL WHERE id = ?
ConfirmToken(table, id, t) ==
  [i \in DOMAIN table |->
     IF table[i].id = id
     THEN [table[i] EXCEPT !.claimed_at = Num(t), !.claim_code = Null,
                           !.claim_expires_at = Null]
     ELSE table[i]]

\* UPDATE tokens SET claimed_at = NULL WHERE id = ?
UnconfirmToken(table, id) ==
  [i \in DOMAIN table |->
     IF table[i].id = id THEN [table[i] EXCEPT !.claimed_at = Null]
     ELSE table[i]]

\* UPDATE tokens SET last_used_at = datetime('now') WHERE id = ?
TouchToken(table, id, t) ==
  [i \in DOMAIN table |->
     IF table[i].id = id THEN [table[i] EXCEPT !.last_used_at = Num(t)]
     ELSE table[i]]

\* the row marked and kept in the table
DeleteSubmissionKeepingRow(table, id) == table

\* DELETE FROM submissions WHERE id = ?
DeleteSubmission(table, id) ==
  LET Keep(r) == r.id # id IN SelectSeq(table, Keep)

CountAll(table) == Len(table)
\* the comparison of the count turned around
CountHigherTurned(table, target) ==
  Cardinality({i \in DOMAIN table : FracLess(table[i].score_percentage, target)})

\* SELECT COUNT(*) FROM submissions WHERE score_percentage > ?
CountHigher(table, target) ==
  Cardinality({i \in DOMAIN table : FracLess(target, table[i].score_percentage)})
\* SELECT COUNT(*) FROM submissions WHERE score_percentage < ?
CountLower(table, target) ==
  Cardinality({i \in DOMAIN table : FracLess(table[i].score_percentage, target)})

\* const rank = higher + 1
Rank(higher) == higher + 1

\* the percentage of the submission itself counted among the greater ones
DistinctRankNotLower(table, target) ==
  Cardinality({table[i].score_percentage : i \in
                 {j \in DOMAIN table :
                    FracLeq(target, table[j].score_percentage)}}) + 1

\* SELECT COUNT(DISTINCT score_percentage) + 1 FROM submissions
\*   WHERE score_percentage > ?
DistinctRank(table, target) ==
  Cardinality({table[i].score_percentage : i \in
                 {j \in DOMAIN table :
                    FracLess(target, table[j].score_percentage)}}) + 1

\* Number(x.toFixed(2)) of the quotient n / d with d > 0, in hundredths: the
\* nearest hundredth, a tie going away from zero
ToFixed2(n, d) ==
  IF n >= 0 THEN (2 * 100 * n + d) \div (2 * d)
  ELSE -((2 * 100 * (-n) + d) \div (2 * d))

\* the submission itself counted below its own rank
DetailPercentileInclusive(total, rank) ==
  IF total > 0 THEN ToFixed2(100 * (total - rank + 1), total) ELSE 0

\* total > 0 ? Number((((total - rank) / total) * 100).toFixed(2)) : 0
DetailPercentile(total, rank) ==
  IF total > 0 THEN ToFixed2(100 * (total - rank), total) ELSE 0

\* SELECT s.*, ... FROM submissions s JOIN tokens t ON s.token_id = t.id
\*   WHERE s.id = ? LIMIT 1
SelectDetailRow(table, tokenTable, id) ==
  LET hit == {i \in DOMAIN table :
                /\ table[i].id = id
                /\ \E k \in DOMAIN tokenTable :
                     tokenTable[k].id = table[i].token_id}
  IN IF hit = {} THEN Null
     ELSE Obj(table[CHOOSE i \in hit : \A j \in hit : i <= j])

\* Number(((lower / totalSubmissions) * 100).toFixed(2)), in hundredths
Percentile(lower, totalSubmissions) ==
  IF totalSubmissions = 0 THEN 0
  ELSE (2 * 10000 * lower + totalSubmissions) \div (2 * totalSubmissions)

-----------------------------------------------------------------------------
(* Requests and responses                                                   *)

\* request slots: the requests that can be in flight together
NumProcs == 2
Procs == 1..NumProcs

\* What the routing layer hands to the handler.  transport is "ok" or names
\* the transport check that the request fails.
Request(transport, token, body) ==
  [transport |-> transport, token |-> token, body |-> body]

Payload(submission_id, timestamp, model, provider, benchmark_version, total_score, max_score, tasks) ==
  [submission_id |-> submission_id, timestamp |-> timestamp, model |-> model,
   provider |-> provider, benchmark_version |-> benchmark_version,
   total_score |-> total_score, max_score |-> max_score, tasks |-> tasks]

NoReq == [kind |-> "none"]
NoResp == [status |-> 0, error |-> "", details |-> <<>>]

ErrorResponse(status, error, details) ==
  [status |-> status, error |-> error, details |-> details]

\* An exception that leaves the handler: the framework answers 500.
InternalServerError == ErrorResponse(500, "internal_server_error", <<>>)

Unauthorized == ErrorResponse(401, "unauthorized", <<>>)

\* c.json({status: "accepted", submission_id, rank, percentile, ...}, status)
Accepted(status, submission_id, rank, percentile) ==
  [status |-> status, error |-> "", details |-> <<>>,
   submission_id |-> submission_id, rank |-> rank, percentile |-> percentile]

\* Lines 20-150 of the handler: the response of a request that does not reach
\* the lookup of the submission, or NoResp.
EarlyResponse(request, tokenRow) ==
  IF request.transport = "no_https"
  THEN ErrorResponse(400, "invalid_request", <<>>)
  ELSE IF request.transport = "no_content_type"
  THEN ErrorResponse(422, "validation_failed",
                     <<Detail("Content-Type must be application/json", -1)>>)
  ELSE IF ~Truthy(request.token) THEN Unauthorized
  ELSE IF tokenRow = Null THEN Unauthorized
  ELSE IF request.transport = "too_large"
  THEN ErrorResponse(413, "validation_failed",
                     <<Detail("Payload exceeds 1MB limit", -1)>>)
  ELSE IF request.transport = "bad_json"
  THEN ErrorResponse(422, "validation_failed",
                     <<Detail("Body must be valid JSON", -1)>>)
  ELSE LET v == Validate(request.body)
       IN IF v.threw THEN InternalServerError
          ELSE IF Len(v.details) > 0
          THEN ErrorResponse(422, "validation_failed", v.details)
          ELSE NoResp

\* A handler that takes every request for a new submission
IsNewSubmissionAlways(existing) == TRUE

\* if (!existing): the quota and the insert apply
IsNewSubmission(existing) == existing = Null

\* A handler that answers with the percentage of the payload
scorePercentageComputed(existing, computed) == computed

\* existing?.score_percentage ?? computedScorePercentage
scorePercentage(existing, computed) ==
  IF existing = Null THEN computed ELSE existing.val.score_percentage

\* A slot is free before its first request and after each response.
Free(p) == pc[p] \in {"idle", "done"}
FirstFree(p) == Free(p) /\ \A q \in Procs : q < p => ~Free(q)

Finish(p, response) ==
  /\ pc' = [pc EXCEPT ![p] = "done"]
  /\ resp' = [resp EXCEPT ![p] = response]

Goto(p, label) ==
  /\ pc' = [pc EXCEPT ![p] = label]
  /\ UNCHANGED resp

-----------------------------------------------------------------------------
(* POST /api/results                                                        *)

\* A request for POST /api/results reaches the worker and takes the first
\* free slot.
ArriveResults(p, request) ==
  /\ FirstFree(p)
  /\ pc' = [pc EXCEPT ![p] = "results"]
  /\ req' = [req EXCEPT ![p] = [kind |-> "results", request |-> request]]
  /\ resp' = [resp EXCEPT ![p] = NoResp]
  /\ nreq' = nreq + 1
  /\ UNCHANGED <<submissions, tokens, token_registration_limits,
                 benchmark_versions, now>>

\* A handler that notes the use of the token as soon as it has found it
ReceiveResultsTouching(p) ==
  /\ pc[p] = "results"
  /\ LET request == req[p].request
         tokenRow == IF Truthy(request.token)
                     THEN SelectTokenByHash(tokens, hashToken(request.token.val))
                     ELSE Null
         early == EarlyResponse(request, tokenRow)
     IN /\ req' = [req EXCEPT ![p] =
                     [kind |-> "results", request |-> request,
                      tokenRow |-> tokenRow, existing |-> Null,
                      computed |-> FracZero, scorePercentage |-> FracZero,
                      total |-> 0, higher |-> 0, lower |-> 0]]
        /\ tokens' = IF tokenRow = Null THEN tokens
                     ELSE TouchToken(tokens, tokenRow.val.id, now + 1)
        /\ IF early.status = 0 THEN Goto(p, "existing") ELSE Finish(p, early)
  /\ UNCHANGED <<submissions, token_registration_limits,
                 benchmark_versions, now, nreq, hist,
                 raw_post_logs, keyVars>>

\* Lines 20-150: transport checks, the token lookup and the validation.
ReceiveResults(p) ==
  /\ pc[p] = "results"
  /\ LET request == req[p].request
         tokenRow == IF Truthy(request.token)
                     THEN SelectTokenByHash(tokens, hashToken(request.token.val))
                     ELSE Null
         early == EarlyResponse(request, tokenRow)
     IN /\ req' = [req EXCEPT ![p] =
                     [kind |-> "results", request |-> request,
                      tokenRow |-> tokenRow, existing |-> Null,
                      computed |-> FracZero, scorePercentage |-> FracZero,
                      total |-> 0, higher |-> 0, lower |-> 0]]
        /\ IF early.status = 0 THEN Goto(p, "existing") ELSE Finish(p, early)
  /\ UNCHANGED <<submissions, tokens, token_registration_limits,
                 benchmark_versions, now, nreq, hist,
                 raw_post_logs, keyVars>>

\* A lookup that is followed by the insert, with no quota in between
LookupExistingSkippingQuota(p) ==
  /\ pc[p] = "existing"
  /\ LET payload == req[p].request.body
         existing == SelectSubmissionById(submissions, payload.submission_id.val)
         computed == computedScorePercentage(payload.total_score.val,
                                             payload.max_score.val)
     IN /\ req' = [req EXCEPT ![p].existing = existing,
                              ![p].computed = computed,
                              ![p].scorePercentage =
                                 scorePercentage(existing, computed)]
        /\ IF IsNewSubmission(existing) THEN Goto(p, "insert")
           ELSE Goto(p, "touch")
  /\ UNCHANGED <<submissions, tokens, token_registration_limits,
                 benchmark_versions, now, nreq, hist,
                 raw_post_logs, keyVars>>

\* Lines 152-164: the lookup of the submission and the score percentage
LookupExisting(p) ==
  /\ pc[p] = "existing"
  /\ LET payload == req[p].request.body
         existing == SelectSubmissionById(submissions, payload.submission_id.val)
         computed == computedScorePercentage(payload.total_score.val,
                                             payload.max_score.val)
     IN /\ req' = [req EXCEPT ![p].existing = existing,
                              ![p].computed = computed,
                              ![p].scorePercentage =
                                 scorePercentage(existing, computed)]
        /\ IF IsNewSubmission(existing) THEN Goto(p, "quota")
           ELSE Goto(p, "touch")
  /\ UNCHANGED <<submissions, tokens, token_registration_limits,
                 benchmark_versions, now, nreq, hist,
                 raw_post_logs, keyVars>>

\* A quota over the rows that the client dates no earlier than this request
CheckQuotaByClientClock(p) ==
  /\ pc[p] = "quota"
  /\ LET mine == {i \in DOMAIN submissions :
                    /\ submissions[i].token_id = req[p].tokenRow.val.id
                    /\ ~ /\ submissions[i].timestamp = TimestampOther
                          /\ req[p].request.body.timestamp.val = TimestampValid}
     IN IF Cardinality(mine) >= DAILY_SUBMISSION_LIMIT
        THEN Finish(p, ErrorResponse(429, "rate_limited", <<>>))
        ELSE Goto(p, "insert")
  /\ UNCHANGED <<submissions, tokens, token_registration_limits,
                 benchmark_versions, now, req, nreq, hist,
                 raw_post_logs, keyVars>>

\* Lines 165-181: the daily quota of the token
CheckQuota(p) ==
  /\ pc[p] = "quota"
  /\ IF DailyCount(submissions, req[p].tokenRow.val.id, now)
          >= DAILY_SUBMISSION_LIMIT
     THEN Finish(p, ErrorResponse(429, "rate_limited", <<>>))
     ELSE Goto(p, "insert")
  /\ UNCHANGED <<submissions, tokens, token_registration_limits,
                 benchmark_versions, now, req, nreq, hist,
                 raw_post_logs, keyVars>>

\* Lines 183-233: the INSERT; a taken primary key makes run() throw
InsertSubmission(p) ==
  /\ pc[p] = "insert"
  /\ LET payload == req[p].request.body
     IN IF PrimaryKeyTaken(submissions, payload.submission_id.val)
        THEN /\ Finish(p, InternalServerError)
             /\ UNCHANGED submissions
        ELSE /\ submissions' =
                  Append(submissions,
                         SubmissionRow(payload, req[p].tokenRow.val.id,
                                       req[p].computed, now))
             /\ IF Truthy(payload.benchmark_version)
                THEN Goto(p, "version") ELSE Goto(p, "touch")
  /\ UNCHANGED <<tokens, token_registration_limits, benchmark_versions,
                 now, req, nreq, hist,
                 raw_post_logs, keyVars>>

\* the row of the version written anew on every submission
RegisterVersionReplacing(p) ==
  /\ pc[p] = "version"
  /\ benchmark_versions' =
       LET id == req[p].request.body.benchmark_version.val
           Other(r) == r.id # id
       IN InsertOrIgnoreVersion(SelectSeq(benchmark_versions, Other), id, now)
  /\ Goto(p, "touch")
  /\ UNCHANGED <<submissions, tokens, token_registration_limits, now, req,
                 nreq, hist,
                 raw_post_logs, keyVars>>

\* Lines 235-242: the version of the payload is registered on first sight
RegisterVersion(p) ==
  /\ pc[p] = "version"
  /\ benchmark_versions' =
       InsertOrIgnoreVersion(benchmark_versions,
                             req[p].request.body.benchmark_version.val, now)
  /\ Goto(p, "touch")
  /\ UNCHANGED <<submissions, tokens, token_registration_limits, now, req,
                 nreq, hist,
                 raw_post_logs, keyVars>>

\* Lines 245-248
TouchLastUsed(p) ==
  /\ pc[p] = "touch"
  /\ tokens' = TouchToken(tokens, req[p].tokenRow.val.id, now)
  /\ Goto(p, "total")
  /\ UNCHANGED <<submissions, token_registration_limits, benchmark_versions,
                 now, req, nreq, hist,
                 raw_post_logs, keyVars>>

\* Lines 245-248 when run() rejects: the statement stands in no try block and
\* the application installs no error handler, so the exception leaves the
\* handler and the framework answers 500.
TouchLastUsedFails(p) ==
  /\ pc[p] = "touch"
  /\ req' = [req EXCEPT ![p] = @ @@ [thrown |-> "update_last_used"]]
  /\ Finish(p, InternalServerError)
  /\ UNCHANGED <<submissions, tokens, token_registration_limits,
                 benchmark_versions, now, nreq, hist,
                 raw_post_logs, keyVars>>

\* Lines 250-252
CountTotal(p) ==
  /\ pc[p] = "total"
  /\ req' = [req EXCEPT ![p].total = CountAll(submissions)]
  /\ Goto(p, "higher")
  /\ UNCHANGED <<submissions, tokens, token_registration_limits,
                 benchmark_versions, now, nreq, hist,
                 raw_post_logs, keyVars>>

\* Lines 254-259
CountHigherRows(p) ==
  /\ pc[p] = "higher"
  /\ req' = [req EXCEPT ![p].higher =
                          CountHigher(submissions, req[p].scorePercentage)]
  /\ Goto(p, "lower")
  /\ UNCHANGED <<submissions, tokens, token_registration_limits,
                 benchmark_versions, now, nreq, hist,
                 raw_post_logs, keyVars>>

\* Lines 261-284: the last count and the response
CountLowerAndRespond(p) ==
  /\ pc[p] = "lower"
  /\ LET lower == CountLower(submissions, req[p].scorePercentage)
     IN /\ req' = [req EXCEPT ![p].lower = lower]
        /\ Finish(p, Accepted(IF req[p].existing # Null THEN 200 ELSE 201,
                              req[p].request.body.submission_id.val,
                              Rank(req[p].higher),
                              Percentile(lower, req[p].total)))
  /\ UNCHANGED <<submissions, tokens, token_registration_limits,
                 benchmark_versions, now, nreq, hist,
                 raw_post_logs, keyVars>>

-----------------------------------------------------------------------------
(* DELETE /admin/api/submissions/:id                                        *)

\* The handler finds the row and deletes it; without the row it answers 404
\* and changes nothing.
AdminDeleteSubmission(id) ==
  /\ PrimaryKeyTaken(submissions, id)
  /\ submissions' = DeleteSubmission(submissions, id)
  /\ UNCHANGED <<tokens, token_registration_limits, benchmark_versions,
                 now, pc, req, resp, nreq>>

-----------------------------------------------------------------------------
(* PUT /admin/api/versions/:id.  The rows that logAdminAction writes to     *)
(* raw_post_logs are read by no handler and are not written here.           *)

\* The body of the request: current and hidden, each a boolean or absent
VersionUpdate(current, hidden) == [current |-> current, hidden |-> hidden]

Success == [status |-> 200, error |-> "", details |-> <<>>]
NotFound == ErrorResponse(404, "not_found", <<>>)

ArriveVersionUpdate(p, id, body) ==
  /\ FirstFree(p)
  /\ pc' = [pc EXCEPT ![p] = "version_update"]
  /\ req' = [req EXCEPT ![p] = [kind |-> "version_update", id |-> id,
                                body |-> body]]
  /\ resp' = [resp EXCEPT ![p] = NoResp]
  /\ nreq' = nreq + 1
  /\ UNCHANGED <<submissions, tokens, token_registration_limits,
                 benchmark_versions, now>>

\* typeof body.hidden === "boolean"
HiddenGiven(body) == Typeof(body.hidden) = "boolean"

\* Lines 107-118: the version is looked up; body.current === true decides
\* what follows
SelectVersion(p) ==
  /\ pc[p] = "version_update"
  /\ IF SelectVersionById(benchmark_versions, req[p].id) = Null
     THEN Finish(p, NotFound)
     ELSE IF req[p].body.current = Bool(TRUE) THEN Goto(p, "clear_current")
     ELSE IF HiddenGiven(req[p].body) THEN Goto(p, "set_hidden")
     ELSE Finish(p, Success)
  /\ UNCHANGED <<submissions, tokens, token_registration_limits,
                 benchmark_versions, now, req, nreq, hist,
                 raw_post_logs, keyVars>>

\* Lines 120-122: no version is current
ClearCurrentFlags(p) ==
  /\ pc[p] = "clear_current"
  /\ benchmark_versions' = ClearCurrent(benchmark_versions)
  /\ Goto(p, "set_current")
  /\ UNCHANGED <<submissions, tokens, token_registration_limits, now, req,
                 nreq, hist,
                 raw_post_logs, keyVars>>

\* Lines 124-135: the version of the request is current
SetCurrentFlag(p) ==
  /\ pc[p] = "set_current"
  /\ benchmark_versions' = SetCurrent(benchmark_versions, req[p].id)
  /\ IF HiddenGiven(req[p].body) THEN Goto(p, "set_hidden")
     ELSE Finish(p, Success)
  /\ UNCHANGED <<submissions, tokens, token_registration_limits, now, req,
                 nreq, hist,
                 raw_post_logs, keyVars>>

\* Lines 138-152: body.hidden ? 1 : 0 is stored and the handler answers
SetHiddenFlag(p) ==
  /\ pc[p] = "set_hidden"
  /\ benchmark_versions' =
       SetHidden(benchmark_versions, req[p].id,
                 IF req[p].body.hidden.val THEN 1 ELSE 0)
  /\ Finish(p, Success)
  /\ UNCHANGED <<submissions, tokens, token_registration_limits, now, req,
                 nreq, hist,
                 raw_post_logs, keyVars>>

VersionUpdateStep(p) ==
  \/ SelectVersion(p)
  \/ ClearCurrentFlags(p)
  \/ SetCurrentFlag(p)
  \/ SetHiddenFlag(p)

-----------------------------------------------------------------------------
(* GET /api/benchmark_versions and GET /api/benchmark_versions/latest       *)

\* SELECT COUNT(*) FROM submissions WHERE benchmark_version = ?
SubmissionCount(table, id) ==
  Cardinality({i \in DOMAIN table : table[i].benchmark_version = Str(id)})

\* ... FROM benchmark_versions WHERE hidden = 0
PublicVersionRows(table) == {i \in DOMAIN table : table[i].hidden = 0}

\* ... WHERE current = 1 AND hidden = 0 ORDER BY created_at DESC LIMIT 1:
\* the rows that the statement can return, none or the youngest ones
LatestVersionRows(table) ==
  LET rows == {i \in DOMAIN table :
                 table[i].current = 1 /\ table[i].hidden = 0}
  IN {i \in rows : \A j \in rows : table[j].created_at <= table[i].created_at}

\* ORDER BY created_at DESC: the orders in which the rows can be returned
NewestFirst(table, rows) ==
  {order \in [1..Cardinality(rows) -> rows] :
     /\ \A k, l \in DOMAIN order : order[k] = order[l] => k = l
     /\ \A k, l \in DOMAIN order :
          k < l => table[order[k]].created_at >= table[order[l]].created_at}

ArriveVersions(p, kind) ==
  /\ FirstFree(p)
  /\ pc' = [pc EXCEPT ![p] = kind]
  /\ req' = [req EXCEPT ![p] = [kind |-> kind, rows |-> <<>>]]
  /\ resp' = [resp EXCEPT ![p] = NoResp]
  /\ nreq' = nreq + 1
  /\ UNCHANGED <<submissions, tokens, token_registration_limits,
                 benchmark_versions, now>>

VersionsUnchanged ==
  UNCHANGED <<submissions, tokens, token_registration_limits,
              benchmark_versions, now, nreq, hist, raw_post_logs, keyVars>>

\* benchmarkVersions.ts 12-24: the versions that are not hidden
SelectPublicVersions(p) ==
  /\ pc[p] = "versions"
  /\ \E order \in NewestFirst(benchmark_versions,
                                PublicVersionRows(benchmark_versions)) :
       req' = [req EXCEPT ![p].rows =
                 [k \in DOMAIN order |-> benchmark_versions[order[k]]]]
  /\ Goto(p, "versions_counts")
  /\ VersionsUnchanged

\* benchmarkVersions.ts 26-47: the submissions of each version are counted
\* and the listing is returned
CountPublicVersions(p) ==
  /\ pc[p] = "versions_counts"
  /\ Finish(p, Success @@
               [versions |->
                  [k \in DOMAIN req[p].rows |->
                     [id |-> req[p].rows[k].id,
                      created_at |-> req[p].rows[k].created_at,
                      is_current |-> req[p].rows[k].current = 1,
                      submission_count |->
                        SubmissionCount(submissions, req[p].rows[k].id)]]])
  /\ UNCHANGED req
  /\ VersionsUnchanged

\* benchmarkVersions.ts 55-77: the youngest current version that is not
\* hidden, or 404
SelectLatestVersion(p) ==
  /\ pc[p] = "latest"
  /\ IF LatestVersionRows(benchmark_versions) = {}
     THEN Finish(p, NotFound) /\ UNCHANGED req
     ELSE /\ \E i \in LatestVersionRows(benchmark_versions) :
               req' = [req EXCEPT ![p].rows = <<benchmark_versions[i]>>]
          /\ Goto(p, "latest_count")
  /\ VersionsUnchanged

\* benchmarkVersions.ts 79-94: its submissions are counted and it is returned
CountLatestVersion(p) ==
  /\ pc[p] = "latest_count"
  /\ Finish(p, Success @@
               [version |->
                  [id |-> req[p].rows[1].id,
                   created_at |-> req[p].rows[1].created_at,
                   is_current |-> TRUE,
                   submission_count |->
                     SubmissionCount(submissions, req[p].rows[1].id)]])
  /\ UNCHANGED req
  /\ VersionsUnchanged

-----------------------------------------------------------------------------
(* GET /api/submissions/:id                                                 *)

ArriveDetail(p, id) ==
  /\ FirstFree(p)
  /\ pc' = [pc EXCEPT ![p] = "detail"]
  /\ req' = [req EXCEPT ![p] = [kind |-> "detail", id |-> id, row |-> Null,
                                rank |-> 0]]
  /\ resp' = [resp EXCEPT ![p] = NoResp]
  /\ nreq' = nreq + 1
  /\ UNCHANGED <<submissions, tokens, token_registration_limits,
                 benchmark_versions, now>>

\* Lines 191-228: the row of the submission, or 404
SelectDetail(p) ==
  /\ pc[p] = "detail"
  /\ LET row == SelectDetailRow(submissions, tokens, req[p].id)
     IN /\ req' = [req EXCEPT ![p].row = row]
        /\ IF row = Null THEN Finish(p, NotFound) ELSE Goto(p, "detail_rank")
  /\ UNCHANGED <<submissions, tokens, token_registration_limits,
                 benchmark_versions, now, nreq, hist,
                 raw_post_logs, keyVars>>

\* Lines 230-237
DetailRank(p) ==
  /\ pc[p] = "detail_rank"
  /\ req' = [req EXCEPT ![p].rank =
               DistinctRank(submissions, req[p].row.val.score_percentage)]
  /\ Goto(p, "detail_total")
  /\ UNCHANGED <<submissions, tokens, token_registration_limits,
                 benchmark_versions, now, nreq, hist,
                 raw_post_logs, keyVars>>

\* Lines 239-301: the total and the response
DetailTotalAndRespond(p) ==
  /\ pc[p] = "detail_total"
  /\ LET total == CountAll(submissions)
     IN Finish(p, [status |-> 200, error |-> "", details |-> <<>>,
                   submission_id |-> req[p].row.val.id,
                   score_percentage |-> req[p].row.val.score_percentage,
                   rank |-> req[p].rank, total_submissions |-> total,
                   percentile |-> DetailPercentile(total, req[p].rank)])
  /\ UNCHANGED <<submissions, tokens, token_registration_limits,
                 benchmark_versions, now, req, nreq, hist,
                 raw_post_logs, keyVars>>

DetailStep(p) ==
  \/ SelectDetail(p)
  \/ DetailRank(p)
  \/ DetailTotalAndRespond(p)

-----------------------------------------------------------------------------
(* The public queries of one benchmark-version scope: GET /api/leaderboard, *)
(* /api/models, /api/stats, /api/submissions, /api/me/submissions and       *)
(* /api/providers/:provider/models.  A result is the set of its rows: the   *)
(* stores of the model hold fewer rows than the smallest default LIMIT, and *)
(* the averages, times and costs of a group are left out.                   *)

\* c.req.query(name)?.trim()
OptionalTrim(v) == IF v = Undefined THEN Undefined ELSE Str(Trim(v.val))

\* a || b
Or(a, b) == IF Truthy(a) THEN a ELSE b

\* SELECT id FROM benchmark_versions WHERE current = 1
SelectCurrentVersions(table) ==
  LET IsCurrent(r) == r.current = 1
      rows == SelectSeq(table, IsCurrent)
  IN [k \in DOMAIN rows |-> rows[k].id]

\* the scope is the list of the current versions whatever the query names
resolveBenchmarkVersionsCurrentOnly(query, table) ==
  SelectCurrentVersions(table)

\* resolveBenchmarkVersions, on the query parameters and the version table
resolveBenchmarkVersions(query, table) ==
  LET requested == Or(OptionalTrim(query.version),
                      OptionalTrim(query.benchmark_version))
  IN IF Truthy(requested) THEN <<requested.val>>
     ELSE SelectCurrentVersions(table)

\* NULL taken as a member of every list
appendBenchmarkVersionFilterNullPasses(versions, value) ==
  \/ Len(versions) = 0
  \/ value.type # "string"
  \/ \E k \in DOMAIN versions : value.val = versions[k]

\* appendBenchmarkVersionFilter: no condition for the empty list, and else
\* `field IN (?, ...)`, which NULL does not satisfy
appendBenchmarkVersionFilter(versions, value) ==
  \/ Len(versions) = 0
  \/ /\ value.type = "string"
     /\ \E k \in DOMAIN versions : value.val = versions[k]

\* FROM submissions s JOIN tokens t ON s.token_id = t.id, with
\* t.claimed_at IS NOT NULL when only verified submissions are asked for
JoinTokens(table, tokenTable, verified) ==
  {i \in DOMAIN table :
     \E k \in DOMAIN tokenTable :
       /\ tokenTable[k].id = table[i].token_id
       /\ verified => tokenTable[k].claimed_at # Null}

\* The code point of a character of an identifier
CharCode(c) ==
  LET chars == <<"-", "0", "1", "2", "3", "4", "5", "6", "7", "8", "9",
                 "a", "b", "c", "d", "e", "f">>
  IN CHOOSE k \in DOMAIN chars : chars[k] = c

\* a < b for two TEXT values of the same length
TextLess(a, b) ==
  \E k \in DOMAIN a :
    /\ \A j \in 1..(k - 1) : a[j] = b[j]
    /\ CharCode(a[k]) < CharCode(b[k])

\* a < b for the sample timestamps
TimestampLess(a, b) == a = TimestampOther /\ b = TimestampValid

\* ORDER BY score_percentage DESC, timestamp DESC, id ASC
OrderedBefore(a, b) ==
  \/ FracLess(b.score_percentage, a.score_percentage)
  \/ /\ a.score_percentage = b.score_percentage
     /\ \/ TimestampLess(b.timestamp, a.timestamp)
        \/ a.timestamp = b.timestamp /\ TextLess(a.id, b.id)

\* MAX(score_percentage) of the rows
MaxPercentage(table, rows) ==
  LET values == {table[i].score_percentage : i \in rows}
  IN CHOOSE x \in values : \A y \in values : FracLeq(y, x)

\* if (value) query += " AND field = ?"
OptionalEquals(param, value) ==
  Truthy(param) => value = param

\* The number that is no number
NaN == [type |-> "nan", val |-> 0]

Digits == <<"0", "1", "2", "3", "4", "5", "6", "7", "8", "9">>
IsDigit(c) == \E k \in DOMAIN Digits : Digits[k] = c
DigitValue(c) == (CHOOSE k \in DOMAIN Digits : Digits[k] = c) - 1

\* The value of the leading decimal digits of s, after the digits of acc
RECURSIVE ParseDigits(_, _)
ParseDigits(s, acc) ==
  IF s # <<>> /\ IsDigit(Head(s))
  THEN ParseDigits(Tail(s), 10 * acc + DigitValue(Head(s)))
  ELSE acc

\* parseInt(s, 10): leading white space is skipped, a sign is read, then the
\* decimal digits up to the first other character; NaN without a digit
parseInt(s) ==
  LET t == TrimStart(s)
      signed == t # <<>> /\ Head(t) \in {"-", "+"}
      digits == IF signed THEN Tail(t) ELSE t
  IN IF digits = <<>> \/ ~IsDigit(Head(digits)) THEN NaN
     ELSE Num((IF signed /\ Head(t) = "-" THEN -1 ELSE 1)
                * ParseDigits(digits, 0))

\* Math.max and Math.min of two numbers: NaN when either is NaN
MathMax(a, b) ==
  IF a = NaN \/ b = NaN THEN NaN ELSE IF a.val >= b.val THEN a ELSE b
MathMin(a, b) ==
  IF a = NaN \/ b = NaN THEN NaN ELSE IF a.val <= b.val THEN a ELSE b

\* Math.min(Math.max(1, parseInt(c.req.query("limit") ?? "50", 10)), 200)
LeaderboardLimit(query) ==
  MathMin(MathMax(Num(1),
                  parseInt(Coalesce(query.limit, Str(<<"5", "0">>)).val)),
          Num(200))

\* ORDER BY best_score_percentage DESC, submission_count DESC
EntryBefore(a, b) ==
  \/ FracLess(b.best_score_percentage, a.best_score_percentage)
  \/ /\ a.best_score_percentage = b.best_score_percentage
     /\ a.submission_count > b.submission_count

\* ORDER BY ... LIMIT n: the results that hold the first n entries, the order
\* of equal entries being left to the database
FirstEntries(entries, n) ==
  {page \in SUBSET entries :
     /\ Cardinality(page) = IF n < Cardinality(entries) THEN n
                            ELSE Cardinality(entries)
     /\ \A a \in page, b \in entries \ page : ~EntryBefore(b, a)}

\* The rows of the leaderboard query, before GROUP BY
LeaderboardRows(table, tokenTable, query, versions) ==
  {i \in JoinTokens(table, tokenTable, query.verified) :
     /\ appendBenchmarkVersionFilter(versions, table[i].benchmark_version)
     /\ OptionalEquals(OptionalTrim(query.provider), table[i].provider)}

\* The subquery best_submission_id of the group of a model
BestSubmissionId(table, tokenTable, query, versions, model) ==
  LET rows == {i \in JoinTokens(table, tokenTable, query.verified) :
                 /\ table[i].model = model
                 /\ appendBenchmarkVersionFilter(versions,
                                                 table[i].benchmark_version)}
  IN IF rows = {} THEN Null
     ELSE Str(table[CHOOSE i \in rows :
                      \A j \in rows \ {i} :
                        OrderedBefore(table[i], table[j])].id)

\* SELECT s.model, MAX(...), COUNT(*), (subquery) ... GROUP BY s.model
Leaderboard(table, tokenTable, query, versions) ==
  LET rows == LeaderboardRows(table, tokenTable, query, versions)
  IN {[model |-> m,
       best_score_percentage |->
         MaxPercentage(table, {i \in rows : table[i].model = m}),
       submission_count |-> Cardinality({i \in rows : table[i].model = m}),
       best_submission_id |->
         BestSubmissionId(table, tokenTable, query, versions, m)] :
        m \in {table[i].model : i \in rows}}

\* SELECT COUNT(DISTINCT model) of the leaderboard: joined with the claimed
\* tokens when verified, and else over the table submissions alone
TotalModels(table, tokenTable, verified, versions) ==
  LET from == IF verified THEN JoinTokens(table, tokenTable, TRUE)
              ELSE DOMAIN table
  IN Cardinality({table[i].model :
                    i \in {j \in from :
                             appendBenchmarkVersionFilter(
                               versions, table[j].benchmark_version)}})

\* SELECT s.model, s.provider, COUNT(*), MAX(s.score_percentage) ...
\*   GROUP BY s.model, s.provider
ModelGroups(table, rows) ==
  {[model |-> g[1], provider |-> g[2],
    submission_count |->
      Cardinality({i \in rows : <<table[i].model, table[i].provider>> = g}),
    best_score |->
      MaxPercentage(table, {i \in rows :
                              <<table[i].model, table[i].provider>> = g})] :
     g \in {<<table[i].model, table[i].provider>> : i \in rows}}

\* The rows of GET /api/models
ModelsRows(table, tokenTable, query, versions) ==
  {i \in JoinTokens(table, tokenTable, query.verified) :
     appendBenchmarkVersionFilter(versions, table[i].benchmark_version)}

\* The rows of GET /api/providers/:provider/models
ProviderRows(table, tokenTable, query, versions) ==
  {i \in JoinTokens(table, tokenTable, query.verified) :
     /\ table[i].provider = OptionalTrim(query.provider)
     /\ appendBenchmarkVersionFilter(versions, table[i].benchmark_version)}

\* The rows of GET /api/submissions, of the page and of the count alike
ListRows(table, tokenTable, query, versions) ==
  {i \in JoinTokens(table, tokenTable, query.verified) :
     /\ OptionalEquals(OptionalTrim(query.model), Str(table[i].model))
     /\ OptionalEquals(OptionalTrim(query.provider), table[i].provider)
     /\ appendBenchmarkVersionFilter(versions, table[i].benchmark_version)}

\* The rows of GET /api/me/submissions: WHERE token_id = ?
MyRows(table, token_id, versions) ==
  {i \in DOMAIN table :
     /\ table[i].token_id = token_id
     /\ appendBenchmarkVersionFilter(versions, table[i].benchmark_version)}

\* The rows of the five queries of GET /api/stats, in the order of the code
StatsRows(table, tokenTable, versions, t, step) ==
  LET from == IF step = 3 THEN JoinTokens(table, tokenTable, TRUE)
              ELSE DOMAIN table
  IN {i \in from :
        /\ step = 4 => table[i].created_at >= t - HoursPerDay
        /\ appendBenchmarkVersionFilter(versions, table[i].benchmark_version)}

\* SELECT model, MAX(score_percentage) as best_score ... GROUP BY model
\*   ORDER BY best_score DESC LIMIT 1: the groups that the store may put first
TopModels(table, rows) ==
  IF rows = {} THEN {Null}
  ELSE {Obj([model |-> table[i].model,
             best_score |-> table[i].score_percentage]) :
          i \in {j \in rows :
                   table[j].score_percentage = MaxPercentage(table, rows)}}

IdsOf(table, rows) == {table[i].id : i \in rows}

\* A request for one of the scoped queries reaches the worker
ArriveScoped(p, kind, query) ==
  /\ FirstFree(p)
  /\ pc' = [pc EXCEPT ![p] =
              IF kind \in {"me", "provider_models"} THEN kind ELSE "scope"]
  /\ req' = [req EXCEPT ![p] = [kind |-> kind, query |-> query,
                                versions |-> <<>>, token_id |-> Null,
                                step |-> 1, limit |-> Null,
                                result |-> [status |-> 200, error |-> "",
                                            details |-> <<>>]]]
  /\ resp' = [resp EXCEPT ![p] = NoResp]
  /\ nreq' = nreq + 1
  /\ UNCHANGED <<submissions, tokens, token_registration_limits,
                 benchmark_versions, now>>

ScopedUnchanged ==
  UNCHANGED <<submissions, tokens, token_registration_limits,
              benchmark_versions, now, nreq, hist,
                 raw_post_logs, keyVars>>

\* submissions.ts 312-344: the token of GET /api/me/submissions
MyToken(p) ==
  /\ pc[p] = "me"
  /\ LET tokenRow ==
           IF Truthy(req[p].query.token)
           THEN SelectTokenByHash(tokens, hashToken(req[p].query.token.val))
           ELSE Null
     IN IF tokenRow = Null
        THEN Finish(p, Unauthorized) /\ UNCHANGED req
        ELSE /\ req' = [req EXCEPT ![p].token_id = tokenRow.val.id]
             /\ Goto(p, "scope")
  /\ ScopedUnchanged

\* providers.ts 70-81: the provider of the path
ProviderParam(p) ==
  /\ pc[p] = "provider_models"
  /\ IF Truthy(OptionalTrim(req[p].query.provider))
     THEN Goto(p, "scope")
     ELSE Finish(p, ErrorResponse(422, "validation_failed", <<>>))
  /\ UNCHANGED req
  /\ ScopedUnchanged

\* const benchmarkVersions = await resolveBenchmarkVersions(c)
ResolveScope(p) ==
  /\ pc[p] = "scope"
  /\ req' = [req EXCEPT ![p].versions =
               resolveBenchmarkVersions(req[p].query, benchmark_versions)]
  /\ Goto(p, req[p].kind \o "_query")
  /\ ScopedUnchanged

\* c.json({..., benchmark_version, benchmark_versions})
ScopedResponse(result, versions) ==
  [result EXCEPT !.status = 200] @@
    [benchmark_versions |-> versions,
     benchmark_version |->
       IF Len(versions) = 1 THEN Str(versions[1]) ELSE Null]

\* part_003 45-111: the limit and the entries of the leaderboard.  A limit
\* that is NaN is bound as no integer: the statement is refused and the
\* exception leaves the handler, or it runs without a bound.
LeaderboardQuery(p) ==
  /\ pc[p] = "leaderboard_query"
  /\ LET limit == LeaderboardLimit(req[p].query)
         entries == Leaderboard(submissions, tokens, req[p].query,
                                req[p].versions)
         Answer(page) ==
           /\ req' = [req EXCEPT ![p].limit = limit,
                                 ![p].result = @ @@ [leaderboard |-> page]]
           /\ Goto(p, "leaderboard_total")
     IN IF limit = NaN
        THEN \/ /\ req' = [req EXCEPT ![p].limit = limit]
                /\ Finish(p, InternalServerError)
             \/ Answer(entries)
        ELSE \E page \in FirstEntries(entries, limit.val) : Answer(page)
  /\ ScopedUnchanged

\* part_003 113-142: the number of models, and the response
LeaderboardTotal(p) ==
  /\ pc[p] = "leaderboard_total"
  /\ Finish(p, ScopedResponse(
                 req[p].result @@
                   [total_models |->
                      TotalModels(submissions, tokens, req[p].query.verified,
                                  req[p].versions)],
                 req[p].versions))
  /\ UNCHANGED req
  /\ ScopedUnchanged

\* part_003 152-200: GET /api/models
ModelsQuery(p) ==
  /\ pc[p] = "models_query"
  /\ Finish(p, ScopedResponse(
                 req[p].result @@
                   [models |->
                      ModelGroups(submissions,
                                  ModelsRows(submissions, tokens, req[p].query,
                                             req[p].versions))],
                 req[p].versions))
  /\ UNCHANGED req
  /\ ScopedUnchanged

\* part_003 208-306: the four counts of Promise.all and the top model, one
\* statement at a time
StatsQuery(p) ==
  /\ pc[p] = "stats_query"
  /\ LET rows == StatsRows(submissions, tokens, req[p].versions, now,
                           req[p].step)
         count == Cardinality(rows)
         models == Cardinality({submissions[i].model : i \in rows})
     IN CASE req[p].step = 1 ->
               /\ req' = [req EXCEPT ![p].step = 2,
                            ![p].result = @ @@ [total_submissions |-> count]]
               /\ UNCHANGED <<pc, resp>>
          [] req[p].step = 2 ->
               /\ req' = [req EXCEPT ![p].step = 3,
                            ![p].result = @ @@ [total_models |-> models]]
               /\ UNCHANGED <<pc, resp>>
          [] req[p].step = 3 ->
               /\ req' = [req EXCEPT ![p].step = 4,
                            ![p].result = @ @@ [verified_submissions |-> count]]
               /\ UNCHANGED <<pc, resp>>
          [] req[p].step = 4 ->
               /\ req' = [req EXCEPT ![p].step = 5,
                            ![p].result = @ @@ [submissions_last_24h |-> count]]
               /\ UNCHANGED <<pc, resp>>
          [] OTHER ->
               /\ \E top \in TopModels(submissions, rows) :
                    Finish(p, ScopedResponse(req[p].result @@ [top_model |-> top],
                                             req[p].versions))
               /\ UNCHANGED req
  /\ ScopedUnchanged

\* submissions.ts 57-125: the page of GET /api/submissions
ListQuery(p) ==
  /\ pc[p] = "submissions_query"
  /\ req' = [req EXCEPT ![p].result =
               @ @@ [submissions |->
                       IdsOf(submissions,
                             ListRows(submissions, tokens, req[p].query,
                                      req[p].versions))]]
  /\ Goto(p, "submissions_total")
  /\ ScopedUnchanged

\* submissions.ts 127-169: the count, and the response
ListTotal(p) ==
  /\ pc[p] = "submissions_total"
  /\ Finish(p, ScopedResponse(
                 req[p].result @@
                   [total |->
                      Cardinality(ListRows(submissions, tokens, req[p].query,
                                           req[p].versions))],
                 req[p].versions))
  /\ UNCHANGED req
  /\ ScopedUnchanged

\* submissions.ts 351-378: the page of GET /api/me/submissions
MyQuery(p) ==
  /\ pc[p] = "me_query"
  /\ req' = [req EXCEPT ![p].result =
               @ @@ [submissions |->
                       IdsOf(submissions,
                             MyRows(submissions, req[p].token_id,
                                    req[p].versions))]]
  /\ Goto(p, "me_total")
  /\ ScopedUnchanged

\* submissions.ts 380-408: the count, and the response
MyTotal(p) ==
  /\ pc[p] = "me_total"
  /\ Finish(p, ScopedResponse(
                 req[p].result @@
                   [total |->
                      Cardinality(MyRows(submissions, req[p].token_id,
                                         req[p].versions))],
                 req[p].versions))
  /\ UNCHANGED req
  /\ ScopedUnchanged

\* providers.ts 83-134: the models of the provider
ProviderQuery(p) ==
  /\ pc[p] = "provider_models_query"
  /\ Finish(p, ScopedResponse(
                 req[p].result @@
                   [models |->
                      ModelGroups(submissions,
                                  ProviderRows(submissions, tokens,
                                               req[p].query, req[p].versions))],
                 req[p].versions))
  /\ UNCHANGED req
  /\ ScopedUnchanged

ScopedStep(p) ==
  \/ MyToken(p)
  \/ ProviderParam(p)
  \/ ResolveScope(p)
  \/ LeaderboardQuery(p)
  \/ LeaderboardTotal(p)
  \/ ModelsQuery(p)
  \/ StatsQuery(p)
  \/ ListQuery(p)
  \/ ListTotal(p)
  \/ MyQuery(p)
  \/ MyTotal(p)
  \/ ProviderQuery(p)

-----------------------------------------------------------------------------
(* POST /admin/api/tokens/:id/confirm and /unconfirm.  claimed_at holds the *)
(* text of datetime('now'), which is never empty: it is truthy when it is   *)
(* not NULL.                                                                *)

\* logAdminAction: INSERT INTO raw_post_logs (method, path, headers, body, ip,
\*   created_at) VALUES ('ADMIN', ?, ?, ?, ?, datetime('now'))
AdminActionLog(action, details, t) ==
  [method |-> "ADMIN", path |-> action,
   headers |-> <<[key |-> <<"admin_email">>, value |-> <<"unknown">>]>>,
   body |-> details, ip |-> "admin", created_at |-> t]

AlreadyClaimed == ErrorResponse(400, "Token already claimed", <<>>)
NotClaimed == ErrorResponse(400, "Token is not claimed", <<>>)
TokenNotFound == ErrorResponse(404, "Token not found", <<>>)

\* A request for confirm or unconfirm of the token id reaches the worker
ArriveClaim(p, kind, id) ==
  /\ FirstFree(p)
  /\ pc' = [pc EXCEPT ![p] = kind]
  /\ req' = [req EXCEPT ![p] = [kind |-> kind, id |-> id]]
  /\ resp' = [resp EXCEPT ![p] = NoResp]
  /\ nreq' = nreq + 1
  /\ UNCHANGED <<submissions, tokens, token_registration_limits,
                 benchmark_versions, now>>

\* the token confirmed whatever its state
SelectForConfirmUnchecked(p) ==
  /\ pc[p] = "confirm"
  /\ LET existing == SelectTokenById(tokens, req[p].id)
     IN IF existing = Null THEN Finish(p, TokenNotFound)
        ELSE Goto(p, "confirm_update")
  /\ UNCHANGED <<submissions, tokens, token_registration_limits,
                 benchmark_versions, now, req, nreq, hist,
                 raw_post_logs, keyVars>>

\* Lines 297-309: the token exists and is not claimed
SelectForConfirm(p) ==
  /\ pc[p] = "confirm"
  /\ LET existing == SelectTokenById(tokens, req[p].id)
     IN IF existing = Null THEN Finish(p, TokenNotFound)
        ELSE IF existing.val.claimed_at # Null THEN Finish(p, AlreadyClaimed)
        ELSE Goto(p, "confirm_update")
  /\ UNCHANGED <<submissions, tokens, token_registration_limits,
                 benchmark_versions, now, req, nreq, hist,
                 raw_post_logs, keyVars>>

\* Lines 311-321: the token is claimed now, without claim code and expiry
ConfirmUpdate(p) ==
  /\ pc[p] = "confirm_update"
  /\ tokens' = ConfirmToken(tokens, req[p].id, now)
  /\ Goto(p, "claim_log")
  /\ UNCHANGED <<submissions, token_registration_limits, benchmark_versions,
                 now, req, nreq, hist,
                 raw_post_logs, keyVars>>

\* Lines 341-353: the token exists and is claimed
SelectForUnconfirm(p) ==
  /\ pc[p] = "unconfirm"
  /\ LET existing == SelectTokenById(tokens, req[p].id)
     IN IF existing = Null THEN Finish(p, TokenNotFound)
        ELSE IF existing.val.claimed_at = Null THEN Finish(p, NotClaimed)
        ELSE Goto(p, "unconfirm_update")
  /\ UNCHANGED <<submissions, tokens, token_registration_limits,
                 benchmark_versions, now, req, nreq, hist,
                 raw_post_logs, keyVars>>

\* Lines 355-359: the token is not claimed any more
UnconfirmUpdate(p) ==
  /\ pc[p] = "unconfirm_update"
  /\ tokens' = UnconfirmToken(tokens, req[p].id)
  /\ Goto(p, "claim_log")
  /\ UNCHANGED <<submissions, token_registration_limits, benchmark_versions,
                 now, req, nreq, hist,
                 raw_post_logs, keyVars>>

\* Lines 323-330 and 361-368: the action is logged, or the failure of the
\* log statement is swallowed, and the request is answered
LogClaimAction(p) ==
  /\ pc[p] = "claim_log"
  /\ \/ raw_post_logs' =
          Append(raw_post_logs,
                 AdminActionLog(req[p].kind \o "_token",
                                [token_id |-> req[p].id], now))
     \/ UNCHANGED raw_post_logs
  /\ UNCHANGED keyVars
  /\ Finish(p, Success)
  /\ UNCHANGED <<submissions, tokens, token_registration_limits,
                 benchmark_versions, now, req, nreq, hist>>

ClaimStep(p) ==
  \/ SelectForConfirm(p)
  \/ ConfirmUpdate(p)
  \/ SelectForUnconfirm(p)
  \/ UnconfirmUpdate(p)
  \/ LogClaimAction(p)

-----------------------------------------------------------------------------
(* POST /api/register                                                       *)

RegisterRequest(transport, ip) == [transport |-> transport, ip |-> ip]

\* A count over the attempts of every address
RegistrationCountAnyAddress(table, ip, t) ==
  Cardinality({i \in DOMAIN table : table[i].created_at >= t - 1})

\* SELECT COUNT(*) FROM token_registration_limits
\*   WHERE ip = ? AND created_at >= datetime('now', '-1 hour')
RegistrationCount(table, ip, t) ==
  Cardinality({i \in DOMAIN table :
                 table[i].ip = ip /\ table[i].created_at >= t - HoursPerHour})

ArriveRegister(p, request) ==
  /\ FirstFree(p)
  /\ resp' = [resp EXCEPT ![p] = NoResp]
  /\ pc' = [pc EXCEPT ![p] = "register"]
  /\ req' = [req EXCEPT ![p] =
               [kind |-> "register", request |-> request, draw |-> 100 + nreq]]
  /\ nreq' = nreq + 1
  /\ UNCHANGED <<submissions, tokens, token_registration_limits,
                 benchmark_versions, now>>

\* a refused registration recorded as an attempt all the same
CheckRegistrationRateCounting(p) ==
  /\ pc[p] = "register"
  /\ LET request == req[p].request
         limited == /\ request.transport = "ok"
                    /\ RegistrationCount(token_registration_limits,
                                         request.ip, now)
                         >= MAX_REGISTRATIONS_PER_HOUR
     IN /\ IF request.transport = "no_https"
           THEN Finish(p, ErrorResponse(400, "invalid_request", <<>>))
           ELSE IF request.transport = "no_content_type"
           THEN Finish(p, ErrorResponse(422, "validation_failed",
                      <<Detail("Content-Type must be application/json", -1)>>))
           ELSE IF limited
           THEN Finish(p, ErrorResponse(429, "rate_limited", <<>>))
           ELSE Goto(p, "insert_token")
        /\ token_registration_limits' =
             IF limited
             THEN Append(token_registration_limits,
                         [ip |-> request.ip, created_at |-> now])
             ELSE token_registration_limits
  /\ UNCHANGED <<submissions, tokens, benchmark_versions, now, req, nreq, hist,
                 raw_post_logs, keyVars>>

\* Lines 389-432: transport checks and the hourly limit of the address
CheckRegistrationRate(p) ==
  /\ pc[p] = "register"
  /\ LET request == req[p].request
     IN IF request.transport = "no_https"
        THEN Finish(p, ErrorResponse(400, "invalid_request", <<>>))
        ELSE IF request.transport = "no_content_type"
        THEN Finish(p, ErrorResponse(422, "validation_failed",
                   <<Detail("Content-Type must be application/json", -1)>>))
        ELSE IF RegistrationCount(token_registration_limits, request.ip, now)
                  >= MAX_REGISTRATIONS_PER_HOUR
        THEN Finish(p, ErrorResponse(429, "rate_limited", <<>>))
        ELSE Goto(p, "insert_token")
  /\ UNCHANGED <<submissions, tokens, token_registration_limits,
                 benchmark_versions, now, req, nreq, hist,
                 raw_post_logs, keyVars>>

\* Lines 434-465: the secret, its hash, the claim code and the tokens row
InsertToken(p) ==
  /\ pc[p] = "insert_token"
  /\ tokens' = Append(tokens, NewTokenRow(req[p].draw, now))
  /\ Goto(p, "insert_attempt")
  /\ UNCHANGED <<submissions, token_registration_limits, benchmark_versions,
                 now, req, nreq, hist,
                 raw_post_logs, keyVars>>

\* Lines 467-479: the attempt is recorded and the secret returned
InsertAttempt(p) ==
  /\ pc[p] = "insert_attempt"
  /\ token_registration_limits' =
       Append(token_registration_limits,
              [ip |-> req[p].request.ip, created_at |-> now])
  /\ Finish(p, [status |-> 201, error |-> "", details |-> <<>>,
                token |-> Secret(req[p].draw)])
  /\ UNCHANGED <<submissions, tokens, benchmark_versions, now, req, nreq, hist,
                 raw_post_logs, keyVars>>

-----------------------------------------------------------------------------
(* The admin middleware: getJWKS, which verifyAccessJWT calls for the keys  *)
(* of the identity provider.  jwksCache and jwksCacheTime belong to the     *)
(* worker and are shared by the requests that it handles together.         *)

JWKS_CACHE_DURATION == 600000

\* Date.now() when the first request arrives, and the step of the clock:
\* half a cache interval
FirstDateNow == 2 * JWKS_CACHE_DURATION
FiveMinutes == JWKS_CACHE_DURATION \div 2

\* The key sets that the identity provider serves: its keys rotate
KeySets == {Obj([keys |-> <<kid>>]) : kid \in {"kid1", "kid2"}}

ArriveAdmin(p) ==
  /\ FirstFree(p)
  /\ pc' = [pc EXCEPT ![p] = "jwks"]
  /\ req' = [req EXCEPT ![p] = [kind |-> "admin", now |-> 0]]
  /\ resp' = [resp EXCEPT ![p] = NoResp]
  /\ nreq' = nreq + 1
  /\ UNCHANGED <<submissions, tokens, token_registration_limits,
                 benchmark_versions, now>>

\* Lines 40-46: the cache is returned when it is fresh, and else the key set
\* is requested from the identity provider
getJWKS(p) ==
  /\ pc[p] = "jwks"
  /\ IF jwksCache # Null /\ dateNow - jwksCacheTime < JWKS_CACHE_DURATION
     THEN /\ Finish(p, [status |-> 200, error |-> "", details |-> <<>>,
                        jwks |-> jwksCache])
          /\ UNCHANGED <<req, fetches>>
     ELSE /\ req' = [req EXCEPT ![p].now = dateNow]
          /\ fetches' = Append(fetches, dateNow)
          /\ Goto(p, "fetch")
  /\ UNCHANGED <<submissions, tokens, token_registration_limits,
                 benchmark_versions, now, nreq, hist, raw_post_logs,
                 jwksCache, jwksCacheTime, dateNow>>

\* Lines 46-55: a response that is not ok throws, and the middleware answers
\* 401; the key set of an ok response is cached under the time that the call
\* read when it began
FetchResponse(p) ==
  /\ pc[p] = "fetch"
  /\ \/ /\ Finish(p, Unauthorized)
        /\ UNCHANGED <<jwksCache, jwksCacheTime>>
     \/ \E jwks \in KeySets :
          /\ jwksCache' = jwks
          /\ jwksCacheTime' = req[p].now
          /\ Finish(p, [status |-> 200, error |-> "", details |-> <<>>,
                        jwks |-> jwks])
  /\ UNCHANGED <<submissions, tokens, token_registration_limits,
                 benchmark_versions, now, req, nreq, hist, raw_post_logs,
                 dateNow, fetches>>

\* The clock of the worker moves
TickDate ==
  /\ dateNow < FirstDateNow + MaxKeyTicks * FiveMinutes
  /\ dateNow' = dateNow + FiveMinutes
  /\ UNCHANGED <<submissions, tokens, token_registration_limits,
                 benchmark_versions, now, pc, req, resp, nreq, hist,
                 raw_post_logs, jwksCache, jwksCacheTime, fetches>>

-----------------------------------------------------------------------------
(* The logging middleware of POST /api/*.  The INSERT is passed to          *)
(* waitUntil and its failure is swallowed: the row is written or it is not. *)
(* A header is a key and a value, both text.                                *)

Header(key, value) == [key |-> key, value |-> value]

\* key.toLowerCase(), on the letters of the header names
toLowerCase(s) ==
  LET Lower(c) == CASE c = "X" -> "x" [] c = "P" -> "p" [] c = "B" -> "b"
                    [] c = "T" -> "t" [] c = "C" -> "c" [] OTHER -> c
  IN [i \in DOMAIN s |-> Lower(s[i])]

TokenHeaderName ==
  <<"x", "-", "p", "i", "n", "c", "h", "b", "e", "n", "c", "h", "-",
    "t", "o", "k", "e", "n">>

REDACTED == <<"[REDACTED]">>

\* every header copied as it is
LoggedHeadersVerbatim(headers) == headers

\* Lines 37-45: the headers of the log row
LoggedHeaders(headers) ==
  [i \in DOMAIN headers |->
     IF toLowerCase(headers[i].key) = TokenHeaderName
     THEN Header(headers[i].key, REDACTED)
     ELSE headers[i]]

\* Lines 48-63: INSERT INTO raw_post_logs (method, path, headers, body, ip,
\*   created_at) VALUES (?, ?, ?, ?, ?, datetime('now'))
RawPostLog(path, headers, body, ip, t) ==
  [method |-> "POST", path |-> path, headers |-> LoggedHeaders(headers),
   body |-> body, ip |-> ip, created_at |-> t]

\* The middleware on a POST request: the row is written, or the statement
\* fails and nothing is written
LogPost(path, headers, body, ip) ==
  /\ \/ raw_post_logs' =
          Append(raw_post_logs, RawPostLog(path, headers, body, ip, now))
     \/ UNCHANGED raw_post_logs
  /\ UNCHANGED keyVars

-----------------------------------------------------------------------------
(* The clock                                                                *)

Tick(d) ==
  /\ now + d <= MaxTime
  /\ now' = now + d
  /\ UNCHANGED <<submissions, tokens, token_registration_limits,
                 benchmark_versions, pc, req, resp, nreq>>

-----------------------------------------------------------------------------
(* Initial stores and the inputs of the specifications                      *)

\* Two tokens registered at time 0
BaseTokens == <<NewTokenRow(1, 0), NewTokenRow(2, 0)>>

ModelG == <<"g", "p", "t">>
ModelH == <<"h">>
VersionV7 == <<"v", "7">>

OneTask == Arr(<<Task(Num(1), Num(2))>>)

\* An accepted payload with identifier Uuid(k)
GoodPayload(k, model, benchmark_version, total_score, max_score) ==
  Payload(Str(Uuid(k)), Str(TimestampValid), Str(model), Undefined,
          benchmark_version, Num(total_score), Num(max_score), OneTask)

\* n submissions of token `owner`, stored at time t by earlier requests
EarlierSubmissions(n, owner, t) ==
  [i \in 1..n |->
     SubmissionRow(GoodPayload(100 + i, ModelG, Undefined, 1, 2),
                   TokenId(owner), computedScorePercentage(1, 2), t)]

\* History of a client that sends one request at a time through slot 1: the
\* tables and the clock as they were when it sent the request, and whether
\* the request repeats the one it sent just before, with the answer to that
\* one.  The history is forgotten when the clock or the administrator moves.
NoHistory == [kind |-> "none"]
Previous(request) ==
  IF hist.kind = "sent" /\ pc[1] = "done" /\ req[1].request = request
  THEN [kind |-> "same", status |-> resp[1].status,
        scorePercentage |-> IF resp[1].status \in {200, 201}
                            THEN req[1].scorePercentage ELSE FracZero]
  ELSE NoHistory
Record(prev) ==
  /\ hist' = [kind |-> "sent", prev |-> prev,
              startRows |-> submissions, startVersions |-> benchmark_versions,
              startTokens |-> tokens,
              startLimits |-> token_registration_limits, startNow |-> now]
  /\ UNCHANGED <<raw_post_logs, keyVars>>
Forget == hist' = NoHistory /\ UNCHANGED <<raw_post_logs, keyVars>>

\* The worker starts with no key set cached (part_005 34-35)
InitKeys ==
  /\ jwksCache = Null
  /\ jwksCacheTime = 0
  /\ dateNow = FirstDateNow
  /\ fetches = <<>>

InitRequests ==
  /\ hist = NoHistory
  /\ raw_post_logs = <<>>
  /\ InitKeys
  /\ pc = [p \in Procs |-> "idle"]
  /\ req = [p \in Procs |-> NoReq]
  /\ resp = [p \in Procs |-> NoResp]
  /\ nreq = 0

Idle == \A p \in Procs : Free(p)

\* One step of a handler in slot p
ResultsStep(p) ==
  \/ ReceiveResults(p)
  \/ LookupExisting(p)
  \/ CheckQuota(p)
  \/ InsertSubmission(p)
  \/ RegisterVersion(p)
  \/ TouchLastUsed(p)
  \/ CountTotal(p)
  \/ CountHigherRows(p)
  \/ CountLowerAndRespond(p)

RegisterStep(p) ==
  \/ CheckRegistrationRate(p)
  \/ InsertToken(p)
  \/ InsertAttempt(p)

SubmissionIds == {Uuid(1), Uuid(2)}

-----------------------------------------------------------------------------
(* Spec: requests for POST /api/results of two tokens in flight together,   *)
(* and the administrative delete, from the empty submissions table          *)

RaceRequests ==
  {Request("ok", Str(Secret(1)), GoodPayload(1, ModelG, Str(VersionV7), 1, 2)),
   Request("ok", Str(Secret(1)), GoodPayload(1, ModelG, Str(VersionV7), 2, 2)),
   Request("ok", Str(Secret(2)), GoodPayload(1, ModelH, Undefined, 2, 2))}

Init ==
  /\ submissions = <<>>
  /\ tokens = BaseTokens
  /\ token_registration_limits = <<>>
  /\ benchmark_versions = <<>>
  /\ now = 0
  /\ InitRequests

Next ==
  \/ \E p \in Procs, request \in RaceRequests :
       nreq < MaxRequests /\ ArriveResults(p, request) /\ UNCHANGED <<hist, raw_post_logs, keyVars>>
  \/ \E p \in Procs : ResultsStep(p)
  \/ \E id \in SubmissionIds : AdminDeleteSubmission(id) /\ UNCHANGED <<hist, raw_post_logs, keyVars>>

Spec == Init /\ [][Next]_vars

-----------------------------------------------------------------------------
(* SpecSeq: one client at a time.  A request is sent only when no other is  *)
(* in flight, and the clock and the administrator move between requests.    *)
(* Token 1 starts with 0, 99 or 100 submissions stored at time 0.           *)

EarlierCounts == {0, 99, 100}

\* the clock moves by a day, or by a day and an hour
SeqTickHours == {24, 25}

\* Token 1 sends either payload under either identifier, token 2 under the
\* first identifier.
SeqRequests ==
  LET payloads(ids) ==
        {GoodPayload(k, ModelG, Undefined, 1, 2) : k \in ids}
          \cup {GoodPayload(k, ModelH, Str(VersionV7), 2, 2) : k \in ids}
  IN {Request("ok", Str(Secret(1)), body) : body \in payloads({1, 2})}
       \cup {Request("ok", Str(Secret(2)), body) : body \in payloads({1})}

InitSeq ==
  /\ \E n \in EarlierCounts : submissions = EarlierSubmissions(n, 1, 0)
  /\ tokens = BaseTokens
  /\ token_registration_limits = <<>>
  /\ benchmark_versions = <<>>
  /\ now = 0
  /\ InitRequests

NextSeq ==
  \/ \E request \in SeqRequests :
       /\ nreq < MaxSeqRequests
       /\ Idle
       /\ ArriveResults(1, request)
       /\ Record(Previous(request))
  \/ ResultsStep(1)
  \/ \E id \in {Uuid(1), Uuid(101)} :
       Idle /\ AdminDeleteSubmission(id) /\ Forget
  \/ \E d \in SeqTickHours : Idle /\ Tick(d) /\ Forget

SpecSeq == InitSeq /\ [][NextSeq]_vars

-----------------------------------------------------------------------------
(* SpecPayload: one request for POST /api/results with any payload, handled *)
(* to its response on a store that holds the two tokens and no submission   *)

UpperCase(s) ==
  [i \in DOMAIN s |-> IF s[i] = "b" THEN "B" ELSE IF s[i] = "f" THEN "F" ELSE s[i]]

PayloadSubmissionIds ==
  {Undefined, Str(<<>>), Str(Uuid(1)), Str(UpperCase(Uuid(1))), Str(UuidV1(1))}
PayloadTimestamps ==
  {Undefined, Str(""), Str(TimestampValid), Str(TimestampGarbage)}
PayloadModels ==
  {Undefined, Str(<<>>), Str(<<" ", "\t">>), Str(<<" ", "g", " ">>), Num(5)}
PayloadTasks ==
  {Undefined, Str(<<"x">>), Arr(<<>>),
   Arr(<<Task(Num(1), Num(2))>>),
   Arr(<<Task(Num(2), Num(1))>>),
   Arr(<<Task(Num(-3), Num(-1)), Task(Num(0), Num(0))>>),
   Arr(<<Task(Num(1), Num(2)), Task(Undefined, Num(1))>>),
   Arr(<<Task(Num(0), Num(0)), Task(Num(3), Num(2))>>),
   Arr(<<Null>>),
   Arr(<<Task(Num(2), Num(1)), Null>>)}
PayloadTotals == {Undefined, Str(<<"1">>), Num(-2), Num(0), Num(1), Num(2)}
PayloadMaxima == {Undefined, Num(-1), Num(0), Num(2)}
PayloadVersions == {Undefined, Str(<<>>), Str(VersionV7)}

Payloads ==
  {Payload(id, ts, model, Undefined, bv, total, max, tasks) :
     id \in PayloadSubmissionIds, ts \in PayloadTimestamps,
     model \in PayloadModels, bv \in PayloadVersions,
     total \in PayloadTotals, max \in PayloadMaxima, tasks \in PayloadTasks}

\* A payload that breaks the rules on the identifier and on the scores
BadPayload ==
  Payload(Str(UuidV1(1)), Str(TimestampValid), Str(ModelG), Undefined,
          Undefined, Num(2), Num(0), OneTask)

\* Requests that fail a transport check or carry no known token
TransportRequests ==
  {Request(transport, token, body) :
     transport \in {"ok", "no_https", "no_content_type", "too_large", "bad_json"},
     token \in {Undefined, Str(<<>>), Str(Secret(1)), Str(Secret(9))},
     body \in {GoodPayload(1, ModelG, Undefined, 1, 2), BadPayload}}

PayloadRequests ==
  {Request("ok", Str(Secret(1)), body) : body \in Payloads}
    \cup TransportRequests

InitPayload ==
  /\ submissions = <<>>
  /\ tokens = BaseTokens
  /\ token_registration_limits = <<>>
  /\ benchmark_versions = <<>>
  /\ now = 0
  /\ hist = NoHistory
  /\ raw_post_logs = <<>>
  /\ InitKeys
  /\ nreq = 1
  /\ resp = [p \in Procs |-> NoResp]
  /\ \E request \in PayloadRequests :
       /\ pc = [p \in Procs |-> IF p = 1 THEN "results" ELSE "idle"]
       /\ req = [p \in Procs |->
                   IF p = 1 THEN [kind |-> "results", request |-> request]
                   ELSE NoReq]

NextPayload == ResultsStep(1)

SpecPayload == InitPayload /\ [][NextPayload]_vars

-----------------------------------------------------------------------------
(* SpecRegister: registrations sent one at a time from two addresses.       *)
(* Address A starts with 0, 9 or 10 registrations recorded at time 0.       *)

AddressA == "203.0.113.1"
AddressB == "203.0.113.2"

EarlierRegistrationCounts == {0, 9, 10}

EarlierTokens(n) == [i \in 1..n |-> NewTokenRow(i, 0)]
EarlierRegistrations(n, ip) == [i \in 1..n |-> [ip |-> ip, created_at |-> 0]]

RegisterRequests ==
  {RegisterRequest("ok", AddressA), RegisterRequest("ok", AddressB),
   RegisterRequest("no_https", AddressA),
   RegisterRequest("no_content_type", AddressA)}

InitRegister ==
  /\ submissions = <<>>
  /\ \E n \in EarlierRegistrationCounts :
       /\ tokens = EarlierTokens(n)
       /\ token_registration_limits = EarlierRegistrations(n, AddressA)
  /\ benchmark_versions = <<>>
  /\ now = 0
  /\ InitRequests

NextRegister ==
  \/ \E request \in RegisterRequests :
       /\ nreq < MaxRegistrations
       /\ Idle
       /\ ArriveRegister(1, request)
       /\ Record(NoHistory)
  \/ RegisterStep(1)
  \/ Idle /\ now < MaxRegisterTime /\ Tick(1) /\ Forget

SpecRegister == InitRegister /\ [][NextRegister]_vars

-----------------------------------------------------------------------------
(* SpecVersions: the administrator's version updates and requests for POST  *)
(* /api/results that name a version, in flight together.                    *)

VersionV8 == <<"v", "8">>
VersionV9 == <<"v", "9">>

VersionRow(id, current, hidden) ==
  [id |-> id, created_at |-> 0, current |-> current, hidden |-> hidden]

\* the table before any request: empty, or v7 and v8 with v7 current or not
EarlierVersionTables ==
  {<<>>,
   <<VersionRow(VersionV7, 0, 0), VersionRow(VersionV8, 0, 1)>>,
   <<VersionRow(VersionV7, 1, 0), VersionRow(VersionV8, 0, 0)>>}

VersionUpdates ==
  {VersionUpdate(Bool(TRUE), Undefined), VersionUpdate(Bool(TRUE), Bool(TRUE)),
   VersionUpdate(Bool(FALSE), Bool(FALSE)), VersionUpdate(Undefined, Undefined)}

VersionRequests ==
  {Request("ok", Str(Secret(1)), GoodPayload(1, ModelG, Str(VersionV7), 1, 2)),
   Request("ok", Str(Secret(1)), GoodPayload(2, ModelG, Str(VersionV9), 1, 2)),
   Request("ok", Str(Secret(1)), GoodPayload(1, ModelG, Undefined, 1, 2)),
   Request("ok", Str(Secret(1)), GoodPayload(2, ModelG, Str(VersionV7), 3, 2))}

InitVersions ==
  /\ submissions = <<>>
  /\ tokens = BaseTokens
  /\ token_registration_limits = <<>>
  /\ benchmark_versions \in EarlierVersionTables
  /\ now = 0
  /\ InitRequests

NextVersions ==
  \/ \E p \in Procs, id \in {VersionV7, VersionV8, VersionV9},
        body \in VersionUpdates :
       nreq < MaxVersionRequests /\ ArriveVersionUpdate(p, id, body)
         /\ UNCHANGED <<hist, raw_post_logs, keyVars>>
  \/ \E p \in Procs, request \in VersionRequests :
       nreq < MaxVersionRequests /\ ArriveResults(p, request) /\ UNCHANGED <<hist, raw_post_logs, keyVars>>
  \/ \E p \in Procs : VersionUpdateStep(p)
  \/ \E p \in Procs : ResultsStep(p)

SpecVersions == InitVersions /\ [][NextVersions]_vars

-----------------------------------------------------------------------------
(* SpecRank: one client at a time sends submissions and reads submission    *)
(* details over a stored population; the administrator deletes at any time. *)

\* the scores of the population: total_score and max_score
RankScores == {<<0, 2>>, <<1, 2>>, <<2, 2>>}

\* the k-th row of a population, stored at time 0 by token 1
PopulationRow(k, score) ==
  SubmissionRow(GoodPayload(100 + k, ModelG, Undefined, score[1], score[2]),
                TokenId(1), computedScorePercentage(score[1], score[2]), 0)

Populations ==
  UNION {{[k \in 1..n |-> PopulationRow(k, f[k])] : f \in [1..n -> RankScores]} :
           n \in 0..MaxPopulation}

\* a new submission of any score, and the retry of the first row
RankRequests ==
  {Request("ok", Str(Secret(1)),
           GoodPayload(1, ModelG, Str(VersionV7), score[1], score[2])) :
     score \in RankScores}
    \cup {Request("ok", Str(Secret(2)), GoodPayload(101, ModelH, Undefined, 2, 2))}

DetailIds == {Uuid(1), Uuid(101), Uuid(102)}

InitRank ==
  /\ submissions \in Populations
  /\ tokens = BaseTokens
  /\ token_registration_limits = <<>>
  /\ benchmark_versions = <<>>
  /\ now = 0
  /\ InitRequests

NextRank ==
  \/ \E request \in RankRequests :
       /\ nreq < MaxRankRequests
       /\ Idle
       /\ ArriveResults(1, request)
       /\ Record(NoHistory)
  \/ \E id \in DetailIds :
       /\ nreq < MaxRankRequests
       /\ Idle
       /\ ArriveDetail(1, id)
       /\ Record(NoHistory)
  \/ ResultsStep(1)
  \/ DetailStep(1)
  \/ \E id \in DetailIds : AdminDeleteSubmission(id) /\ Forget

SpecRank == InitRank /\ [][NextRank]_vars

-----------------------------------------------------------------------------
(* SpecScope: one client at a time sends the scoped queries to a store that *)
(* holds up to MaxScopeRows submissions of the versions v7, v8 and of no    *)
(* version, by an unclaimed and by a claimed token.                         *)

ProviderA == <<"a", "c", "m", "e">>
ProviderB == <<"b">>

\* The submission of the given kind stored as the k-th row
ScopeRow(k, kind) ==
  LET Row(model, provider, version, owner, total) ==
        SubmissionRow(Payload(Str(Uuid(100 + k)), Str(TimestampValid),
                              Str(model), Str(provider), version, Num(total),
                              Num(2), OneTask),
                      TokenId(owner), computedScorePercentage(total, 2), 0)
  IN CASE kind = 1 -> Row(ModelG, ProviderA, Undefined, 1, 1)
       [] kind = 2 -> Row(ModelG, ProviderA, Str(VersionV7), 2, 2)
       [] kind = 3 -> Row(ModelH, ProviderB, Str(VersionV8), 1, 1)
       [] OTHER -> Row(ModelG, ProviderA, Str(VersionV8), 2, 0)

ScopePopulations ==
  UNION {{[k \in 1..n |-> ScopeRow(k, f[k])] : f \in [1..n -> 1..4]} :
           n \in 0..MaxScopeRows}

\* No version, one current version, two current versions as two concurrent
\* updates leave them, and a current version that is hidden
ScopeVersionTables ==
  {<<>>,
   <<VersionRow(VersionV7, 1, 0)>>,
   <<VersionRow(VersionV7, 1, 0), VersionRow(VersionV8, 1, 0)>>,
   <<VersionRow(VersionV7, 0, 0), VersionRow(VersionV8, 1, 1)>>}

\* The parameters version and benchmark_version of a query
VersionParams ==
  {<<Undefined, Undefined>>,
   <<Str(VersionV7), Undefined>>,
   <<Str(<<" ">> \o VersionV8 \o <<" ">>), Undefined>>,
   <<Str(VersionV9), Str(VersionV7)>>,
   <<Str(<<" ">>), Str(VersionV8)>>}

ScopeQuery(versions, verified, provider, model, token) ==
  [version |-> versions[1], benchmark_version |-> versions[2],
   verified |-> verified, provider |-> provider, model |-> model,
   token |-> token, limit |-> Undefined]

ScopedRequests ==
  UNION {
    {<<"leaderboard", ScopeQuery(v, verified, provider, Undefined, Undefined)>> :
       verified \in BOOLEAN, provider \in {Undefined, Str(ProviderA)}}
    \cup {<<"models", ScopeQuery(v, verified, Undefined, Undefined, Undefined)>> :
            verified \in BOOLEAN}
    \cup {<<"stats", ScopeQuery(v, FALSE, Undefined, Undefined, Undefined)>>}
    \cup {<<"submissions", ScopeQuery(v, verified, filter[1], filter[2], Undefined)>> :
            verified \in BOOLEAN,
            filter \in {<<Undefined, Undefined>>, <<Str(ProviderA), Undefined>>,
                        <<Undefined, Str(ModelG)>>}}
    \cup {<<"me", ScopeQuery(v, FALSE, Undefined, Undefined, token)>> :
            token \in {Undefined, Str(Secret(1)), Str(Secret(3))}}
    \cup {<<"provider_models", ScopeQuery(v, verified, provider, Undefined, Undefined)>> :
            verified \in BOOLEAN, provider \in {Str(ProviderA), Str(<<" ">>)}}
    : v \in VersionParams}

InitScope ==
  /\ submissions \in ScopePopulations
  /\ tokens = ConfirmToken(BaseTokens, TokenId(2), 0)
  /\ token_registration_limits = <<>>
  /\ benchmark_versions \in ScopeVersionTables
  /\ now = 0
  /\ InitRequests

NextScope ==
  \/ \E request \in ScopedRequests :
       /\ nreq < MaxScopeRequests
       /\ Idle
       /\ ArriveScoped(1, request[1], request[2])
       /\ Record(NoHistory)
  \/ ScopedStep(1)

SpecScope == InitScope /\ [][NextScope]_vars

-----------------------------------------------------------------------------
(* SpecClaims: registrations, and the administrator's confirm and unconfirm *)
(* of the stored tokens and of an unknown one, sent one at a time while the *)
(* clock moves.  One token is stored at the start.                          *)

ClaimTokenIds == {tokens[i].id : i \in DOMAIN tokens} \cup {TokenId(0)}

InitClaims ==
  /\ submissions = <<>>
  /\ tokens = <<NewTokenRow(1, 0)>>
  /\ token_registration_limits = <<>>
  /\ benchmark_versions = <<>>
  /\ now = 0
  /\ InitRequests

NextClaims ==
  \/ /\ nreq < MaxClaimRequests
     /\ Idle
     /\ ArriveRegister(1, RegisterRequest("ok", AddressA))
     /\ Record(NoHistory)
  \/ \E kind \in {"confirm", "unconfirm"}, id \in ClaimTokenIds :
       /\ nreq < MaxClaimRequests
       /\ Idle
       /\ ArriveClaim(1, kind, id)
       /\ Record(NoHistory)
  \/ RegisterStep(1)
  \/ ClaimStep(1)
  \/ Idle /\ now < MaxClaimTime /\ Tick(1) /\ Forget

SpecClaims == InitClaims /\ [][NextClaims]_vars

-----------------------------------------------------------------------------
(* SpecLog: registrations, submissions under the stored and the registered  *)
(* secrets and under an unknown one, and confirmations by the               *)
(* administrator, one request at a time through the logging middleware.     *)

\* The name of the token header as the client writes it
TokenHeaderNames ==
  {TokenHeaderName,
   <<"X", "-", "P", "i", "n", "c", "h", "B", "e", "n", "c", "h", "-",
     "T", "o", "k", "e", "n">>}

ContentType == Header(<<"content-type">>, <<"application/json">>)

LogResultsRequests ==
  {Request("ok", token, GoodPayload(1, ModelG, Str(VersionV7), 1, 2)) :
     token \in {Undefined} \cup {Str(Secret(k)) : k \in {1, 3, 100}}}
  \cup {Request("ok", Str(Secret(100)),
                GoodPayload(2, ModelG, Str(VersionV7), 3, 4))}

\* The headers of a request for POST /api/results
ResultsHeaders(request, name) ==
  IF request.token = Undefined THEN <<ContentType>>
  ELSE <<Header(name, request.token.val), ContentType>>

InitLog ==
  /\ submissions = <<>>
  /\ tokens = <<NewTokenRow(1, 0)>>
  /\ token_registration_limits = <<>>
  /\ benchmark_versions = <<>>
  /\ now = 0
  /\ InitRequests

NextLog ==
  \/ \E request \in LogResultsRequests, name \in TokenHeaderNames :
       /\ nreq < MaxLogRequests
       /\ Idle
       /\ ArriveResults(1, request)
       /\ LogPost("/api/results", ResultsHeaders(request, name), request.body,
                  AddressA)
       /\ UNCHANGED hist
  \/ /\ nreq < MaxLogRequests
     /\ Idle
     /\ ArriveRegister(1, RegisterRequest("ok", AddressA))
     /\ LogPost("/api/register", <<ContentType>>, <<>>, AddressA)
     /\ UNCHANGED hist
  \/ \E kind \in {"confirm", "unconfirm"}, i \in DOMAIN tokens :
       /\ nreq < MaxLogRequests
       /\ Idle
       /\ ArriveClaim(1, kind, tokens[i].id)
       /\ UNCHANGED <<hist, raw_post_logs, keyVars>>
  \/ Idle /\ now < MaxLogTime /\ Tick(1) /\ UNCHANGED <<hist, raw_post_logs, keyVars>>
  \/ ResultsStep(1)
  \/ RegisterStep(1)
  \/ ClaimStep(1)

SpecLog == InitLog /\ [][NextLog]_vars

-----------------------------------------------------------------------------
(* SpecFault: one client at a time submits, and the UPDATE of last_used_at  *)
(* succeeds or fails                                                        *)

NextFault ==
  \/ \E request \in SeqRequests :
       /\ nreq < MaxFaultRequests
       /\ Idle
       /\ ArriveResults(1, request)
       /\ UNCHANGED <<hist, raw_post_logs, keyVars>>
  \/ ResultsStep(1)
  \/ TouchLastUsedFails(1)

SpecFault == InitLog /\ [][NextFault]_vars

-----------------------------------------------------------------------------
(* SpecBoard: one client at a time asks for the leaderboard of a store that *)
(* holds up to MaxBoardRows submissions of three models and two providers,  *)
(* with any limit and any filter                                            *)

ModelK == <<"k">>

\* The submission of the given kind stored as the k-th row
BoardRow(k, kind) ==
  LET Row(ts, model, provider, version, owner, total) ==
        SubmissionRow(Payload(Str(Uuid(100 + k)), Str(ts), Str(model),
                              Str(provider), version, Num(total), Num(2),
                              OneTask),
                      TokenId(owner), computedScorePercentage(total, 2), 0)
  IN CASE kind = 1 -> Row(TimestampValid, ModelG, ProviderA, Str(VersionV7), 2, 1)
       [] kind = 2 -> Row(TimestampValid, ModelG, ProviderB, Str(VersionV7), 2, 2)
       [] kind = 3 -> Row(TimestampOther, ModelG, ProviderA, Str(VersionV7), 2, 1)
       [] kind = 4 -> Row(TimestampValid, ModelH, ProviderA, Str(VersionV8), 1, 1)
       [] OTHER -> Row(TimestampValid, ModelK, ProviderB, Undefined, 2, 0)

BoardKinds == 1..5

BoardPopulations ==
  UNION {{[k \in 1..n |-> BoardRow(k, f[k])] : f \in [1..n -> BoardKinds]} :
           n \in 0..MaxBoardRows}

\* The values of the parameter limit: absent, empty, no number, zero,
\* negative, small, above 200, digits followed by letters
Limits ==
  {Undefined, Str(<<>>), Str(<<"a", "b", "c">>), Str(<<"0">>),
   Str(<<"-", "5">>), Str(<<"1">>), Str(<<" ", "2">>), Str(<<"2", "0", "1">>),
   Str(<<"2", "x">>)}

BoardQuery(version, verified, provider, limit) ==
  [ScopeQuery(<<version, Undefined>>, verified, provider, Undefined, Undefined)
     EXCEPT !.limit = limit]

BoardRequests ==
  {BoardQuery(Undefined, FALSE, Undefined, limit) : limit \in Limits}
    \cup {BoardQuery(version, verified, provider, Undefined) :
            version \in {Undefined, Str(VersionV7)},
            verified \in BOOLEAN,
            provider \in {Undefined, Str(ProviderA)}}

InitBoard ==
  /\ submissions \in BoardPopulations
  /\ tokens = ConfirmToken(BaseTokens, TokenId(2), 0)
  /\ token_registration_limits = <<>>
  /\ benchmark_versions = <<>>
  /\ now = 0
  /\ InitRequests

NextBoard ==
  \/ \E query \in BoardRequests :
       /\ nreq < MaxBoardRequests
       /\ Idle
       /\ ArriveScoped(1, "leaderboard", query)
       /\ UNCHANGED <<hist, raw_post_logs, keyVars>>
  \/ ResolveScope(1)
  \/ LeaderboardQuery(1)
  \/ LeaderboardTotal(1)

SpecBoard == InitBoard /\ [][NextBoard]_vars

-----------------------------------------------------------------------------
(* SpecKeys: admin requests in flight together on one worker, whose clock   *)
(* moves by five minutes                                                    *)

NextKeys ==
  \/ \E p \in Procs :
       /\ nreq < MaxKeyRequests
       /\ ArriveAdmin(p)
       /\ UNCHANGED <<hist, raw_post_logs, keyVars>>
  \/ \E p \in Procs : getJWKS(p)
  \/ \E p \in Procs : FetchResponse(p)
  \/ TickDate

SpecKeys == InitLog /\ [][NextKeys]_vars

-----------------------------------------------------------------------------
(* SpecReject: one client at a time sends submissions that are refused, for *)
(* the token, the payload or the quota, and submissions that are accepted,  *)
(* to a store where token 1 has 0 or 100 submissions of the day             *)

\* A payload of version v7 that breaks the rules on the identifier and on
\* the scores
BadPayloadOfVersion ==
  [BadPayload EXCEPT !.benchmark_version = Str(VersionV7)]

RejectRequests ==
  {Request("ok", token, GoodPayload(1, ModelG, Str(VersionV7), 1, 2)) :
     token \in {Undefined, Str(Secret(1)), Str(Secret(2)), Str(Secret(9))}}
    \cup {Request(transport, Str(Secret(1)), BadPayloadOfVersion) :
            transport \in {"ok", "bad_json"}}

InitReject ==
  /\ \E n \in {0, 100} : submissions = EarlierSubmissions(n, 1, 0)
  /\ tokens = BaseTokens
  /\ token_registration_limits = <<>>
  /\ benchmark_versions = <<>>
  /\ now = 0
  /\ InitRequests

NextReject ==
  \/ \E request \in RejectRequests :
       /\ nreq < MaxRejectRequests
       /\ Idle
       /\ ArriveResults(1, request)
       /\ Record(Previous(request))
  \/ ResultsStep(1)

SpecReject == InitReject /\ [][NextReject]_vars

-----------------------------------------------------------------------------
(* SpecRace: submissions and detail requests in flight together, and the    *)
(* administrator's delete at any point, on a store of two submissions       *)

RaceRows == <<PopulationRow(1, <<2, 2>>), PopulationRow(2, <<1, 2>>)>>

\* New submissions below, between and above the stored ones
RaceIngests ==
  {Request("ok", Str(Secret(1)),
           GoodPayload(k, ModelG, IF k = 1 THEN Str(VersionV7) ELSE Undefined,
                       k - 1, 2)) : k \in {1, 3}}

InitRace ==
  /\ submissions = RaceRows
  /\ tokens = BaseTokens
  /\ token_registration_limits = <<>>
  /\ benchmark_versions = <<>>
  /\ now = 0
  /\ InitRequests

NextRace ==
  \/ \E p \in Procs, request \in RaceIngests :
       /\ nreq < MaxRaceRequests
       /\ ArriveResults(p, request)
       /\ UNCHANGED <<hist, raw_post_logs, keyVars>>
  \/ \E p \in Procs, id \in {Uuid(101), Uuid(102)} :
       /\ nreq < MaxRaceRequests
       /\ ArriveDetail(p, id)
       /\ UNCHANGED <<hist, raw_post_logs, keyVars>>
  \/ \E p \in Procs : ResultsStep(p)
  \/ \E p \in Procs : DetailStep(p)
  \/ \E id \in {Uuid(101), Uuid(102)} :
       AdminDeleteSubmission(id) /\ UNCHANGED <<hist, raw_post_logs, keyVars>>

SpecRace == InitRace /\ [][NextRace]_vars

-----------------------------------------------------------------------------
(* SpecSwitch: the administrator makes one version after the other the      *)
(* current one, never two at a time, while the leaderboard is read.  v7 is  *)
(* current at the start.                                                    *)

SwitchQueries ==
  {ScopeQuery(v, FALSE, Undefined, Undefined, Undefined) :
     v \in {<<Undefined, Undefined>>, <<Str(VersionV8), Undefined>>}}

\* Slot p is inside PUT /admin/api/versions/:id
Switching(p) == pc[p] \in {"version_update", "clear_current", "set_current"}

InitSwitch ==
  /\ submissions = <<ScopeRow(1, 2), ScopeRow(2, 3)>>
  /\ tokens = ConfirmToken(BaseTokens, TokenId(2), 0)
  /\ token_registration_limits = <<>>
  /\ benchmark_versions =
       <<VersionRow(VersionV7, 1, 0), VersionRow(VersionV8, 0, 0)>>
  /\ now = 0
  /\ InitRequests

NextSwitch ==
  \/ \E p \in Procs, id \in {VersionV7, VersionV8, VersionV9} :
       /\ nreq < MaxSwitchRequests
       /\ \A q \in Procs : ~Switching(q)
       /\ ArriveVersionUpdate(p, id, VersionUpdate(Bool(TRUE), Undefined))
       /\ UNCHANGED <<hist, raw_post_logs, keyVars>>
  \/ \E p \in Procs, query \in SwitchQueries :
       /\ nreq < MaxSwitchRequests
       /\ ArriveScoped(p, "leaderboard", query)
       /\ UNCHANGED <<hist, raw_post_logs, keyVars>>
  \/ \E p \in Procs : SelectVersion(p)
  \/ \E p \in Procs : ClearCurrentFlags(p)
  \/ \E p \in Procs : SetCurrentFlag(p)
  \/ \E p \in Procs : ResolveScope(p)
  \/ \E p \in Procs : LeaderboardQuery(p)
  \/ \E p \in Procs : LeaderboardTotal(p)

SpecSwitch == InitSwitch /\ [][NextSwitch]_vars

-----------------------------------------------------------------------------
(* SpecConfirm: confirmations of the one stored token, which is not claimed *)
(* at the start, in flight together while the clock moves                   *)

InitConfirm ==
  /\ submissions = <<>>
  /\ tokens = <<NewTokenRow(1, 0)>>
  /\ token_registration_limits = <<>>
  /\ benchmark_versions = <<>>
  /\ now = 0
  /\ InitRequests

NextConfirm ==
  \/ \E p \in Procs :
       /\ nreq < MaxConfirmRequests
       /\ ArriveClaim(p, "confirm", TokenId(1))
       /\ UNCHANGED <<hist, raw_post_logs, keyVars>>
  \/ \E p \in Procs : SelectForConfirm(p)
  \/ \E p \in Procs : ConfirmUpdate(p)
  \/ \E p \in Procs : LogClaimAction(p)
  \/ /\ now < MaxConfirmTime
     /\ Tick(1)
     /\ UNCHANGED <<hist, raw_post_logs, keyVars>>

SpecConfirm == InitConfirm /\ [][NextConfirm]_vars

-----------------------------------------------------------------------------
(* SpecForget: one client at a time sends submissions under one identifier  *)
(* and the administrator deletes between the requests.  Token 1 starts with *)
(* 0 or 99 submissions.  The history holds the last delete: the row and the *)
(* table before it.                                                         *)

ForgetRequests ==
  {Request("ok", Str(Secret(1)), GoodPayload(1, ModelG, Undefined, 1, 2)),
   Request("ok", Str(Secret(1)), GoodPayload(1, ModelH, Str(VersionV7), 2, 2)),
   Request("ok", Str(Secret(2)), GoodPayload(1, ModelH, Undefined, 2, 2)),
   Request("ok", Str(Secret(1)), GoodPayload(101, ModelH, Undefined, 0, 2))}

InitForget ==
  /\ \E n \in {0, 99} : submissions = EarlierSubmissions(n, 1, 0)
  /\ tokens = BaseTokens
  /\ token_registration_limits = <<>>
  /\ benchmark_versions = <<>>
  /\ now = 0
  /\ InitRequests

NextForget ==
  \/ \E request \in ForgetRequests :
       /\ nreq < MaxForgetRequests
       /\ Idle
       /\ ArriveResults(1, request)
       /\ Record(IF hist.kind = "deleted" THEN hist ELSE NoHistory)
  \/ ResultsStep(1)
  \/ \E id \in {Uuid(1), Uuid(101)} :
       /\ Idle
       /\ AdminDeleteSubmission(id)
       /\ hist' = [kind |-> "deleted",
                   row |-> submissions[CHOOSE i \in DOMAIN submissions :
                                         submissions[i].id = id],
                   rowsBefore |-> submissions]
       /\ UNCHANGED <<raw_post_logs, keyVars>>

SpecForget == InitForget /\ [][NextForget]_vars

-----------------------------------------------------------------------------
(* SpecLatest: the administrator updates the flags of the versions, a       *)
(* submission names a new version, and the public listing and the latest    *)
(* version are read, one request at a time.                                 *)

LatestVersionTables ==
  {<<>>, <<VersionRow(VersionV7, 1, 0), VersionRow(VersionV8, 0, 0)>>}

LatestUpdates ==
  {VersionUpdate(Bool(TRUE), Undefined), VersionUpdate(Bool(TRUE), Bool(TRUE)),
   VersionUpdate(Undefined, Bool(TRUE)), VersionUpdate(Undefined, Bool(FALSE))}

InitLatest ==
  /\ submissions = <<ScopeRow(1, 2), ScopeRow(2, 3)>>
  /\ tokens = BaseTokens
  /\ token_registration_limits = <<>>
  /\ benchmark_versions \in LatestVersionTables
  /\ now = 0
  /\ InitRequests

NextLatest ==
  \/ \E id \in {VersionV7, VersionV8}, body \in LatestUpdates :
       /\ nreq < MaxLatestRequests
       /\ Idle
       /\ ArriveVersionUpdate(1, id, body)
       /\ Record(NoHistory)
  \/ /\ nreq < MaxLatestRequests
     /\ Idle
     /\ ArriveResults(1, Request("ok", Str(Secret(1)),
                                 GoodPayload(1, ModelG, Str(VersionV9), 1, 2)))
     /\ Record(NoHistory)
  \/ \E kind \in {"versions", "latest"} :
       /\ nreq < MaxLatestRequests
       /\ Idle
       /\ ArriveVersions(1, kind)
       /\ Record(NoHistory)
  \/ VersionUpdateStep(1)
  \/ ResultsStep(1)
  \/ SelectPublicVersions(1)
  \/ CountPublicVersions(1)
  \/ SelectLatestVersion(1)
  \/ CountLatestVersion(1)
  \/ Idle /\ now < MaxLatestTime /\ Tick(1) /\ Forget

SpecLatest == InitLatest /\ [][NextLatest]_vars

-----------------------------------------------------------------------------
(* SpecClock: the sequential client of SpecSeq with payloads that differ in *)
(* the timestamp of the client, on a store whose rows carry either          *)
(* timestamp                                                                *)

ClientTimestamps == {TimestampValid, TimestampOther}

\* The rows with the client's timestamp replaced
Retimed(table, ts) == [i \in DOMAIN table |-> [table[i] EXCEPT !.timestamp = ts]]

ClockRequests ==
  {Request("ok", Str(Secret(1)),
           [GoodPayload(k, ModelG,
                        IF k = 2 THEN Str(VersionV7) ELSE Undefined, 1, 2)
              EXCEPT !.timestamp = Str(ts)]) :
     k \in {1, 2}, ts \in ClientTimestamps}

InitClock ==
  /\ \E n \in {99, 100}, ts \in ClientTimestamps :
       submissions = Retimed(EarlierSubmissions(n, 1, 0), ts)
  /\ tokens = BaseTokens
  /\ token_registration_limits = <<>>
  /\ benchmark_versions = <<>>
  /\ now = 0
  /\ InitRequests

NextClock ==
  \/ \E request \in ClockRequests :
       /\ nreq < MaxClockRequests
       /\ Idle
       /\ ArriveResults(1, request)
       /\ Record(Previous(request))
  \/ ResultsStep(1)
  \/ \E d \in SeqTickHours : Idle /\ Tick(d) /\ Forget

SpecClock == InitClock /\ [][NextClock]_vars

-----------------------------------------------------------------------------
(* SpecQuota: token 1, with 99 or 100 submissions stored at time 0, sends   *)
(* new submissions that are in flight together, while the clock moves       *)

\* The k-th request of the behaviour
QuotaRequest(k) ==
  Request("ok", Str(Secret(1)),
          GoodPayload(k, ModelG, IF k = 1 THEN Str(VersionV7) ELSE Undefined,
                      1, 2))

InitQuota ==
  /\ \E n \in {99, 100} : submissions = EarlierSubmissions(n, 1, 0)
  /\ tokens = BaseTokens
  /\ token_registration_limits = <<>>
  /\ benchmark_versions = <<>>
  /\ now = 0
  /\ InitRequests

NextQuota ==
  \/ \E p \in Procs :
       /\ nreq < MaxQuotaRequests
       /\ ArriveResults(p, QuotaRequest(nreq + 1))
       /\ UNCHANGED <<hist, raw_post_logs, keyVars>>
  \/ \E p \in Procs : ResultsStep(p)
  \/ \E d \in SeqTickHours : Tick(d) /\ UNCHANGED <<hist, raw_post_logs, keyVars>>

SpecQuota == InitQuota /\ [][NextQuota]_vars

-----------------------------------------------------------------------------
(* Properties                                                               *)

\* Slot p holds the response to a request for POST /api/results.
Answered(p) == pc[p] = "done" /\ req[p].kind = "results"

\* The sequential client has its answer, and nothing has moved since.
AnsweredInSequence == Answered(1) /\ hist.kind = "sent"

SubmittedId(p) == req[p].request.body.submission_id.val
Caller(p) == req[p].tokenRow.val.id

RowsWithId(table, id) == {i \in DOMAIN table : table[i].id = id}
Stored(table, id) == RowsWithId(table, id) # {}
StoredRow(table, id) == table[CHOOSE i \in RowsWithId(table, id) : TRUE]

\* Submissions of an identity whose creation time lies in the 24 hours up to t
OwnedInTrailingDay(table, identity, t) ==
  Cardinality({i \in DOMAIN table :
                 /\ table[i].token_id = identity
                 /\ table[i].created_at >= t - 24
                 /\ table[i].created_at <= t})

\* The client repeats the request it sent just before, which was accepted as
\* new.
RepeatsAcceptedRequest == hist.prev.kind = "same" /\ hist.prev.status = 201

SecondCallIsRetry ==
  RepeatsAcceptedRequest =>
    /\ resp[1].status = 200
    /\ req[1].scorePercentage = hist.prev.scorePercentage
    /\ Cardinality(RowsWithId(submissions, SubmittedId(1))) = 1

\* C1 as stated: for every identity and every valid payload, the first of two
\* calls in sequence with the same submission_id and payload reports a new
\* submission (201), the second reports isNew=false (200) with the same score
\* percentage, and the store then holds exactly one row with that identifier.
C1_IdempotentForEveryIdentity ==
  AnsweredInSequence =>
    /\ ~Stored(hist.startRows, SubmittedId(1)) => resp[1].status = 201
    /\ SecondCallIsRetry

\* C1 amended: the same, for an identity that owns fewer than 100 submissions
\* created in the trailing 24 hours when it makes the first call.
C1_IdempotentBelowQuota ==
  AnsweredInSequence =>
    /\ ( /\ ~Stored(hist.startRows, SubmittedId(1))
         /\ OwnedInTrailingDay(hist.startRows, Caller(1), hist.startNow) < 100 )
       => resp[1].status = 201
    /\ SecondCallIsRetry

C1_Witness ==
  /\ AnsweredInSequence
  /\ RepeatsAcceptedRequest
  /\ resp[1].status = 200

\* C2: of two concurrent requests with the same new submission_id, the one
\* whose insert is refused by the primary key re-reads the row and answers
\* successfully with the stored score percentage; no request ends in an error.
C2_RaceLoserSucceeds ==
  \A p \in Procs :
    ( /\ Answered(p)
      /\ IsNewSubmission(req[p].existing)
      /\ resp[p].status \notin {201, 429} )
    => /\ resp[p].status = 200
       /\ Stored(submissions, SubmittedId(p)) =>
            req[p].scorePercentage
              = StoredRow(submissions, SubmittedId(p)).score_percentage

\* C3: in every reachable state the store holds at most one submission row
\* per submission identifier.
C3_OneRowPerIdentifier ==
  \A i, j \in DOMAIN submissions :
    submissions[i].id = submissions[j].id => i = j

\* two requests with the same identifier have been answered, one row is stored
C3_Witness ==
  /\ \A p \in Procs : Answered(p) /\ SubmittedId(p) = Uuid(1)
  /\ req[1].tokenRow # req[2].tokenRow
  /\ Cardinality(RowsWithId(submissions, Uuid(1))) = 1

\* C4: with requests handled one after another, a request for a submission_id
\* that is not stored is answered RateLimited, and inserts nothing, exactly
\* when its identity owns 100 or more submissions created in the trailing 24
\* hours; submissions of other identities do not count.
C4_SubmissionQuota ==
  (AnsweredInSequence /\ ~Stored(hist.startRows, SubmittedId(1))) =>
    /\ resp[1].status = 429
         <=> OwnedInTrailingDay(hist.startRows, Caller(1), hist.startNow) >= 100
    /\ resp[1].status = 429 => submissions = hist.startRows
    /\ resp[1].status # 429 => resp[1].status = 201

\* the 101st submission of an identity is refused
C4_Witness ==
  /\ AnsweredInSequence
  /\ ~Stored(hist.startRows, SubmittedId(1))
  /\ OwnedInTrailingDay(hist.startRows, Caller(1), hist.startNow) = 100
  /\ resp[1].status = 429
  /\ hist.startNow > 0

\* C6: a request whose submission_id is already stored is answered with
\* isNew=false and inserts nothing, also when its identity has 100 or more
\* submissions in the trailing 24 hours.
C6_RetryBeforeQuota ==
  (AnsweredInSequence /\ Stored(hist.startRows, SubmittedId(1))) =>
    /\ resp[1].status = 200
    /\ submissions = hist.startRows

C6_Witness ==
  /\ AnsweredInSequence
  /\ Stored(hist.startRows, SubmittedId(1))
  /\ OwnedInTrailingDay(hist.startRows, Caller(1), hist.startNow) >= 100
  /\ resp[1].status = 200

\* The sequential client has the answer to a registration that passed the
\* transport checks, and nothing has moved since.
RegistrationAnswered ==
  /\ pc[1] = "done"
  /\ req[1].kind = "register"
  /\ req[1].request.transport = "ok"
  /\ hist.kind = "sent"

\* Attempts recorded for an origin in the hour up to t
AttemptsInTrailingHour(table, origin, t) ==
  Cardinality({i \in DOMAIN table :
                 /\ table[i].ip = origin
                 /\ table[i].created_at >= t - 1
                 /\ table[i].created_at <= t})

\* C5: with registrations handled one after another, a registration is
\* answered RateLimited exactly when its origin has 10 or more recorded
\* attempts in the trailing hour; attempts of other origins do not count.
C5_RegistrationQuota ==
  RegistrationAnswered =>
    /\ resp[1].status = 429
         <=> AttemptsInTrailingHour(hist.startLimits, req[1].request.ip,
                                    hist.startNow) >= 10
    /\ resp[1].status # 429 => resp[1].status = 201

\* the 11th registration of an origin is refused while another origin has
\* attempts on record
C5_Witness ==
  /\ RegistrationAnswered
  /\ resp[1].status = 429
  /\ AttemptsInTrailingHour(hist.startLimits, req[1].request.ip,
                            hist.startNow) = 10
  /\ Len(hist.startLimits) > 10

\* C7: every stored submission has a score percentage between 0 and 1, and a
\* score percentage of 0 when its max_score is 0.
C7_ScorePercentageBounds ==
  \A i \in DOMAIN submissions :
    /\ FracLeq(FracZero, submissions[i].score_percentage)
    /\ FracLeq(submissions[i].score_percentage, FracOne)
    /\ submissions[i].max_score = 0 =>
         submissions[i].score_percentage = FracZero

\* The six rules of the validator, as the payload breaks them
IsString(v) == Typeof(v) = "string"
IsNumber(v) == Typeof(v) = "number"
TaskWellFormed(task) ==
  /\ Typeof(task) = "object"
  /\ task # Null
  /\ IsNumber(task.val.score)
  /\ IsNumber(task.val.max_score)
  /\ task.val.score.val <= task.val.max_score.val
BrokenRules(payload) ==
  {rule \in {"submission_id", "timestamp", "model", "tasks", "scores",
            "task_scores"} :
     \/ /\ rule = "submission_id"
        /\ ~(IsString(payload.submission_id)
             /\ UUID_V4_REGEX(payload.submission_id.val))
     \/ /\ rule = "timestamp"
        /\ ~(IsString(payload.timestamp)
             /\ DateParse(payload.timestamp.val) = "finite")
     \/ /\ rule = "model"
        /\ ~(IsString(payload.model) /\ Trim(payload.model.val) # <<>>)
     \/ /\ rule = "tasks"
        /\ ~(IsArray(payload.tasks) /\ Len(payload.tasks.val) > 0)
     \/ /\ rule = "scores"
        /\ ~(IsNumber(payload.total_score) /\ IsNumber(payload.max_score)
             /\ payload.total_score.val <= payload.max_score.val)
     \/ /\ rule = "task_scores"
        /\ IsArray(payload.tasks)
        /\ \E i \in DOMAIN payload.tasks.val :
             ~TaskWellFormed(payload.tasks.val[i])}

RuleMessages(rule) ==
  CASE rule = "submission_id" -> {MsgSubmissionId}
    [] rule = "timestamp" -> {MsgTimestamp}
    [] rule = "model" -> {MsgModel}
    [] rule = "tasks" -> {MsgTasks}
    [] rule = "scores" -> {MsgScoreType, MsgScoreOrder}
    [] rule = "task_scores" -> {MsgTaskType, MsgTaskOrder}

\* The request in slot p passed the transport checks and carried a known token
ValidationReached(p) ==
  /\ req[p].request.transport = "ok"
  /\ req[p].tokenRow # Null

Enumerates(response, rule) ==
  /\ response.status = 422
  /\ \E i \in DOMAIN response.details :
       response.details[i].msg \in RuleMessages(rule)

\* C8: for every payload that reaches the validator, each of the six rules the
\* payload breaks has its own violation in the list of the client error.
C8_ValidationCompleteness ==
  (Answered(1) /\ ValidationReached(1)) =>
    \A rule \in BrokenRules(req[1].request.body) : Enumerates(resp[1], rule)

\* C9: every stored submission has total_score <= max_score, a non-empty task
\* list, and score <= max_score in each of its tasks.
C9_StoredSubmissionInvariant ==
  \A i \in DOMAIN submissions :
    /\ submissions[i].total_score <= submissions[i].max_score
    /\ Len(submissions[i].tasks) > 0
    /\ \A j \in DOMAIN submissions[i].tasks :
         submissions[i].tasks[j].score <= submissions[i].tasks[j].max_score

\* a payload with two tasks and negative scores is stored
C9_Witness ==
  /\ Answered(1)
  /\ resp[1].status = 201
  /\ \E i \in DOMAIN submissions :
       /\ Len(submissions[i].tasks) = 2
       /\ submissions[i].tasks[1].score < 0

\* The step is DELETE /api/submissions/:id for a stored submission
AdministratorDeletes ==
  \E i \in DOMAIN submissions : AdminDeleteSubmission(submissions[i].id)

\* Every row of the store is still there, in its place and unchanged
RowsKept ==
  \A i \in DOMAIN submissions :
    i \in DOMAIN submissions' /\ submissions'[i] = submissions[i]

\* A request that reuses a stored submission_id leaves its row as it was and
\* is answered with the score percentage of that row.
ReuseLeavesRow ==
  (AnsweredInSequence /\ Stored(hist.startRows, SubmittedId(1))) =>
    /\ Stored(submissions, SubmittedId(1))
    /\ StoredRow(submissions, SubmittedId(1))
         = StoredRow(hist.startRows, SubmittedId(1))
    /\ req[1].scorePercentage
         = StoredRow(hist.startRows, SubmittedId(1)).score_percentage

\* C10: no step other than the administrative delete changes or removes a
\* stored submission; a request that reuses its submission_id with another
\* payload or from another identity leaves every field of the row unchanged
\* and is answered with the stored score percentage.
C10_SubmissionImmutable ==
  [][ /\ RowsKept \/ AdministratorDeletes
      /\ ReuseLeavesRow' ]_vars

\* a stored submission_id is reused by another identity with other scores
C10_Witness ==
  /\ AnsweredInSequence
  /\ Stored(hist.startRows, SubmittedId(1))
  /\ StoredRow(submissions, SubmittedId(1)).token_id # Caller(1)
  /\ req[1].computed # StoredRow(submissions, SubmittedId(1)).score_percentage
  /\ resp[1].status = 200

\* C11: in every reachable state at most one benchmark version has the
\* current flag set, also between the statements of a set-current request and
\* with set-current requests for different versions in flight together.
C11_AtMostOneCurrent ==
  Cardinality({i \in DOMAIN benchmark_versions :
                 benchmark_versions[i].current = 1}) <= 1

\* The sequential client of SpecRank has a successful answer, to a submission
\* or to a detail request, and the population has not changed since.
RankAnswered ==
  /\ pc[1] = "done"
  /\ hist.kind = "sent"
  /\ req[1].kind \in {"results", "detail"}
  /\ resp[1].status \in {200, 201}

\* The score percentage of the submission that the answer is about
Target ==
  IF req[1].kind = "results" THEN req[1].scorePercentage
  ELSE req[1].row.val.score_percentage

RankPairs ==
  {pair \in (DOMAIN submissions) \X (DOMAIN submissions) :
     FracLess(submissions[pair[2]].score_percentage,
              submissions[pair[1]].score_percentage)}

\* C12: for all stored submissions A and B with A.score_percentage >
\* B.score_percentage the rank of A is strictly smaller than the rank of B,
\* with the rank of the ingest response (1 + rows strictly greater) and with
\* the rank of the detail view (1 + distinct strictly greater percentages).
C12_RankMonotone ==
  \A pair \in RankPairs :
    LET a == submissions[pair[1]].score_percentage
        b == submissions[pair[2]].score_percentage
    IN /\ Rank(CountHigher(submissions, a)) < Rank(CountHigher(submissions, b))
       /\ DistinctRank(submissions, a) < DistinctRank(submissions, b)

\* a population with a tie at the top and a lower submission has been ranked
C12_Witness ==
  /\ RankAnswered
  /\ Len(submissions) = 3
  /\ Cardinality(RankPairs) = 2
  /\ resp[1].rank = 2

\* 100 x lower / total in hundredths, rounded to the nearest hundredth, and 0
\* for an empty population
PercentileOf(table, target) ==
  LET lower == Cardinality({i \in DOMAIN table :
                              FracLess(table[i].score_percentage, target)})
      total == Len(table)
  IN IF total = 0 THEN 0
     ELSE (2 * 100 * 100 * lower + total) \div (2 * total)

\* C13: the percentile of the ingest response and of the detail view equals
\* 100 x (stored submissions with a strictly lower score percentage) / (stored
\* submissions), rounded to 2 decimals, and 0 when nothing is stored, also
\* when percentages are tied.
C13_PercentileFormula ==
  RankAnswered => resp[1].percentile = PercentileOf(submissions, Target)

\* The submission of the answer is the only one with the highest percentage
UniqueMaximum ==
  /\ Cardinality({i \in DOMAIN submissions :
                    submissions[i].score_percentage = Target}) = 1
  /\ \A i \in DOMAIN submissions :
       ~FracLess(Target, submissions[i].score_percentage)

\* The total that the handler of slot 1 counted
CountedTotal ==
  IF req[1].kind = "results" THEN req[1].total ELSE resp[1].total_submissions

\* C14: for the unique maximum of a population of N submissions the reported
\* percentile is 100 x (N-1)/N (to 2 decimals), and a handler that counts an
\* empty population reports the percentile 0.
C14_PercentileBoundary ==
  /\ (RankAnswered /\ UniqueMaximum) =>
       LET N == Len(submissions)
       IN resp[1].percentile = (2 * 100 * 100 * (N - 1) + N) \div (2 * N)
  /\ ( /\ pc[1] = "done"
       /\ req[1].kind \in {"results", "detail"}
       /\ resp[1].status \in {200, 201}
       /\ CountedTotal = 0 )
     => resp[1].percentile = 0

\* the detail view of the unique maximum of three submissions
C14_Witness ==
  /\ RankAnswered
  /\ UniqueMaximum
  /\ req[1].kind = "detail"
  /\ Len(submissions) = 3
  /\ resp[1].percentile = 6667

VersionIds(table) == {table[i].id : i \in DOMAIN table}

\* C15: after a successful new ingest that names a version unknown at its
\* start, the version has exactly one row, with current = 0 and hidden = 0, and
\* the rows of the other versions are as they were; after a successful new
\* ingest that names no version, the version table is as it was.
C15_VersionAutoRegistration ==
  (AnsweredInSequence /\ req[1].kind = "results" /\ resp[1].status = 201) =>
    LET version == req[1].request.body.benchmark_version
    IN IF Truthy(version)
       THEN version.val \notin VersionIds(hist.startVersions) =>
              /\ Len(benchmark_versions) = Len(hist.startVersions) + 1
              /\ SubSeq(benchmark_versions, 1, Len(hist.startVersions))
                   = hist.startVersions
              /\ LET row == benchmark_versions[Len(benchmark_versions)]
                 IN /\ row.id = version.val
                    /\ row.current = 0
                    /\ row.hidden = 0
       ELSE benchmark_versions = hist.startVersions

\* a new submission naming the unknown version v7 has been accepted
C15_Witness ==
  /\ AnsweredInSequence
  /\ req[1].kind = "results"
  /\ resp[1].status = 201
  /\ req[1].request.body.benchmark_version = Str(VersionV7)
  /\ hist.startVersions = <<>>
  /\ Len(benchmark_versions) = 1

\* Every version row of the state is the same row, in the same place, after
\* the step
VersionsKept ==
  /\ Len(benchmark_versions') >= Len(benchmark_versions)
  /\ \A i \in DOMAIN benchmark_versions :
       benchmark_versions'[i] = benchmark_versions[i]

\* C16: no step of the ingest changes the id, created_at, current or hidden
\* of a version that exists; a step that changes one is a step of the
\* administrator's version update.
C16_IngestKeepsVersionFlags ==
  [][VersionsKept \/ \E p \in Procs : VersionUpdateStep(p)]_vars

\* a new submission naming the current version v7 has been accepted
C16_Witness ==
  \E p \in Procs :
    /\ pc[p] = "done"
    /\ req[p].kind = "results"
    /\ resp[p].status = 201
    /\ req[p].request.body.benchmark_version = Str(VersionV7)
    /\ \E i \in DOMAIN benchmark_versions :
         /\ benchmark_versions[i].id = VersionV7
         /\ benchmark_versions[i].current = 1

ScopedKinds ==
  {"leaderboard", "models", "stats", "submissions", "me", "provider_models"}

\* The sequential client has the result of a scoped query
ScopedAnswered ==
  /\ pc[1] = "done"
  /\ req[1].kind \in ScopedKinds
  /\ resp[1].status = 200

\* The version that the query names: the first of the parameters version and
\* benchmark_version that is not blank, without the white space around it
ExplicitVersion(query) ==
  LET given == <<query.version, query.benchmark_version>>
      named == {k \in 1..2 : /\ given[k] # Undefined
                             /\ Trim(given[k].val) # <<>>}
  IN IF named = {} THEN Undefined
     ELSE Str(Trim(given[CHOOSE k \in named : \A j \in named : k <= j].val))

\* C17: the scope of a query that names a non-blank version is the list of
\* that one identifier, whether or not the version exists or is current; the
\* scope of a query that names none is the set of the versions whose current
\* flag is set, each once.
C17_ScopeResolution ==
  ScopedAnswered =>
    LET scope == resp[1].benchmark_versions
        explicit == ExplicitVersion(req[1].query)
    IN IF explicit # Undefined
       THEN scope = <<explicit.val>>
       ELSE /\ {scope[k] : k \in DOMAIN scope}
                 = {benchmark_versions[i].id :
                      i \in {j \in DOMAIN benchmark_versions :
                               benchmark_versions[j].current = 1}}
            /\ \A k, l \in DOMAIN scope : scope[k] = scope[l] => k = l

\* the query names v9, which is not in the table, while v7 is current
C17_Witness ==
  /\ ScopedAnswered
  /\ req[1].query.version = Str(VersionV9)
  /\ resp[1].benchmark_versions = <<VersionV9>>
  /\ \E i \in DOMAIN benchmark_versions :
       benchmark_versions[i].id = VersionV7 /\ benchmark_versions[i].current = 1

\* Submission i is of a version of the scope, or the scope is empty
InScope(i) ==
  LET scope == resp[1].benchmark_versions
      version == submissions[i].benchmark_version
  IN \/ scope = <<>>
     \/ /\ version # Null
        /\ \E k \in DOMAIN scope : version = Str(scope[k])

\* The owner of submission i exists, and has claimed when that is asked for
OwnerJoined(i, verified) ==
  \E k \in DOMAIN tokens :
    /\ tokens[k].id = submissions[i].token_id
    /\ verified => tokens[k].claimed_at # Null

\* Submission i passes the filters of the query other than the scope
OtherFilters(i) ==
  LET kind == req[1].kind
      query == req[1].query
      row == submissions[i]
      Given(param) == param # Undefined /\ Trim(param.val) # <<>>
  IN /\ kind = "me" => row.token_id = req[1].token_id
     /\ kind \in {"leaderboard", "models", "submissions", "provider_models"}
          => OwnerJoined(i, query.verified)
     /\ (kind \in {"leaderboard", "submissions", "provider_models"}
           /\ Given(query.provider))
          => row.provider = Str(Trim(query.provider.val))
     /\ (kind = "submissions" /\ Given(query.model))
          => row.model = Trim(query.model.val)

\* The submissions that the result is to be computed from
UsedRows == {i \in DOMAIN submissions : OtherFilters(i) /\ InScope(i)}

\* C18: the result of every scoped query is computed from exactly the
\* submissions that pass its other filters and, when the scope is not empty,
\* name a version of the scope (an unknown explicit version gives an empty
\* result with status 200); with the empty scope the submissions of every
\* version and of no version are used.
C18_ScopeFiltering ==
  ScopedAnswered =>
    LET kind == req[1].kind
        usedModels == {submissions[i].model : i \in UsedRows}
        usedIds == {submissions[i].id : i \in UsedRows}
        Count(model) ==
          Cardinality({i \in UsedRows : submissions[i].model = model})
    IN /\ kind \in {"submissions", "me"} =>
            /\ resp[1].submissions = usedIds
            /\ resp[1].total = Cardinality(UsedRows)
       /\ kind = "stats" =>
            /\ resp[1].total_submissions = Cardinality(UsedRows)
            /\ resp[1].total_models = Cardinality(usedModels)
            /\ resp[1].verified_submissions
                 = Cardinality({i \in UsedRows : OwnerJoined(i, TRUE)})
            /\ resp[1].submissions_last_24h = Cardinality(UsedRows)
            /\ IF UsedRows = {} THEN resp[1].top_model = Null
               ELSE resp[1].top_model.val.model \in usedModels
       /\ kind = "leaderboard" =>
            /\ {e.model : e \in resp[1].leaderboard} = usedModels
            /\ \A e \in resp[1].leaderboard :
                 /\ e.submission_count = Count(e.model)
                 /\ \E i \in DOMAIN submissions :
                      /\ InScope(i)
                      /\ submissions[i].model = e.model
                      /\ e.best_submission_id = Str(submissions[i].id)
            /\ resp[1].total_models
                 = Cardinality({submissions[i].model :
                                  i \in {j \in DOMAIN submissions :
                                           /\ InScope(j)
                                           /\ req[1].query.verified
                                                => OwnerJoined(j, TRUE)}})
       /\ kind \in {"models", "provider_models"} =>
            /\ {e.model : e \in resp[1].models} = usedModels
            /\ \A e \in resp[1].models : e.submission_count = Count(e.model)

\* with no current version and no version named, the list holds a submission
\* of no version and a submission of v7
C18_Witness ==
  /\ ScopedAnswered
  /\ req[1].kind = "submissions"
  /\ resp[1].benchmark_versions = <<>>
  /\ resp[1].total = 2
  /\ \E i, j \in UsedRows :
       /\ submissions[i].benchmark_version = Null
       /\ submissions[j].benchmark_version = Str(VersionV7)

\* The sequential client has the answer to a confirm or an unconfirm of a
\* token that was stored when it sent the request
ClaimAnswered ==
  /\ pc[1] = "done"
  /\ hist.kind = "sent"
  /\ req[1].kind \in {"confirm", "unconfirm"}
  /\ \E i \in DOMAIN hist.startTokens : hist.startTokens[i].id = req[1].id

TokenRow(table, id) == table[CHOOSE i \in DOMAIN table : table[i].id = id]

\* C19: confirm of a claimed token is answered AlreadyClaimed and unconfirm of
\* an unclaimed token NotClaimed, and the row of the token, with its
\* claimed_at, claim_code and claim_expires_at, is as it was; confirm of an
\* unclaimed token succeeds and leaves it claimed, unconfirm of a claimed
\* token succeeds and leaves it unclaimed.
C19_ClaimTransitions ==
  ClaimAnswered =>
    LET old == TokenRow(hist.startTokens, req[1].id)
        new == TokenRow(tokens, req[1].id)
    IN IF (req[1].kind = "confirm") <=> (old.claimed_at # Null)
       THEN /\ resp[1] = IF req[1].kind = "confirm" THEN AlreadyClaimed
                         ELSE NotClaimed
            /\ new = old
       ELSE /\ resp[1].status = 200
            /\ (new.claimed_at # Null) <=> (req[1].kind = "confirm")

\* a later confirm of a claimed token has been refused
C19_Witness ==
  /\ ClaimAnswered
  /\ req[1].kind = "confirm"
  /\ resp[1] = AlreadyClaimed
  /\ TokenRow(tokens, req[1].id).claimed_at = Num(0)
  /\ now = 1

\* C20: a token with claimed_at set has neither claim_code nor
\* claim_expires_at; a token that an unconfirm has just taken back from
\* claimed has claimed_at NULL and claim_code NULL, which is not the state
\* with a claim code that the registration left it in.
C20_CredentialState ==
  /\ \A i \in DOMAIN tokens :
       tokens[i].claimed_at # Null =>
         tokens[i].claim_code = Null /\ tokens[i].claim_expires_at = Null
  /\ (ClaimAnswered /\ req[1].kind = "unconfirm" /\ resp[1].status = 200) =>
       LET new == TokenRow(tokens, req[1].id)
       IN /\ new.claimed_at = Null
          /\ new.claim_code = Null
          /\ new # NewTokenRow(new.token_hash[2][2], new.created_at)

\* a registered token has been confirmed and then taken back
C20_Witness ==
  /\ ClaimAnswered
  /\ req[1].kind = "unconfirm"
  /\ resp[1].status = 200
  /\ req[1].id = TokenId(100)
  /\ \E i \in DOMAIN tokens :
       tokens[i].id # req[1].id /\ tokens[i].claimed_at # Null

\* The secrets of the tokens of SpecLog: the stored one, an unknown one, and
\* those that the registrations draw
IsSecret(text) ==
  \E k \in {1, 3} \cup 100..(100 + MaxLogRequests) : text = Secret(k)

\* A text value of the body of a log row is a secret: a string field of a
\* payload other than its date, a field of the details of an administrator's
\* action
SecretInBody(row) ==
  \E f \in DOMAIN row.body \ {"timestamp"} :
    IF row.method = "ADMIN" THEN IsSecret(row.body[f])
    ELSE row.body[f].type = "string" /\ IsSecret(row.body[f].val)

\* A text value that the store holds is a secret; the addresses, paths and
\* times are no text that a secret can be equal to
SecretStored ==
  \/ \E i \in DOMAIN tokens :
       \/ IsSecret(tokens[i].id)
       \/ IsSecret(tokens[i].token_hash)
       \/ tokens[i].claim_code # Null /\ IsSecret(tokens[i].claim_code.val)
  \/ \E i \in DOMAIN raw_post_logs :
       \/ \E k \in DOMAIN raw_post_logs[i].headers :
            IsSecret(raw_post_logs[i].headers[k].value)
       \/ SecretInBody(raw_post_logs[i])

\* C21: no value stored in the tokens table, in the registration attempts or
\* in the rows of raw_post_logs, those of the administrator's actions
\* included, is a secret: the registration stores the hash of the secret, and
\* the log row of a request holds the redaction marker in the place of the
\* value of the token header.
C21_SecretConfidentiality ==
  /\ ~SecretStored
  /\ \A i \in DOMAIN tokens :
       /\ tokens[i].token_hash[1] = "sha256"
       /\ IsSecret(tokens[i].token_hash[2])
  /\ \A i \in DOMAIN raw_post_logs :
       \A k \in DOMAIN raw_post_logs[i].headers :
         toLowerCase(raw_post_logs[i].headers[k].key) = TokenHeaderName
           => raw_post_logs[i].headers[k].value = REDACTED

\* a submission under a registered secret has been accepted and logged, and
\* the confirmation of a token has been logged
C21_Witness ==
  /\ pc[1] = "done"
  /\ req[1].kind = "results"
  /\ resp[1].status = 201
  /\ req[1].request.token = Str(Secret(100))
  /\ \E i, j \in DOMAIN raw_post_logs :
       /\ raw_post_logs[i].method = "ADMIN"
       /\ raw_post_logs[j].path = "/api/results"
       /\ raw_post_logs[j].headers[1].value = REDACTED


\* The tokens rows of a secret, and the secret of a request for
\* POST /api/results
RowsOfSecret(secret) ==
  {i \in DOMAIN tokens : tokens[i].token_hash = hashToken(secret)}
SentSecret(p) == req[p].request.token.val

\* Slot p holds the response 201 of POST /api/register.
Registered(p) ==
  pc[p] = "done" /\ req[p].kind = "register" /\ resp[p].status = 201

\* Slot p holds the response to a submission under a registered secret:
\* the secret of a tokens row that is not the row of the initial store.
AnsweredUnderRegistered(p) ==
  /\ Answered(p)
  /\ Truthy(req[p].request.token)
  /\ \E i \in RowsOfSecret(SentSecret(p)) : i > 1

UpdateFailed(p) ==
  "thrown" \in DOMAIN req[p] /\ req[p].thrown = "update_last_used"

\* C23: when the update of last_used_at fails during an ingest, the ingest
\* still answers with its accepted response, status 200 or 201 with rank and
\* percentile, and never with an error.
C23_LastUsedBestEffort ==
  (Answered(1) /\ UpdateFailed(1)) =>
    /\ resp[1].status \in {200, 201}
    /\ "rank" \in DOMAIN resp[1]
    /\ "percentile" \in DOMAIN resp[1]

\* The decision of the quota query of the handler on a store
QuotaReached(table, identity, t) ==
  DailyCount(table, identity, t) >= DAILY_SUBMISSION_LIMIT

\* The request of slot 1 with the client's timestamp replaced
RetimedRequest(ts) ==
  [req[1].request EXCEPT !.body.timestamp = Str(ts)]

\* C24: the answer to a new submission is RateLimited exactly when the quota
\* query decides so on the store of any run that differs only in the
\* timestamps of the client, those of the stored rows and that of the
\* request; an accepted submission is stored with the time of the server as
\* its creation time, whatever timestamp the client sent.
C24_QuotaIgnoresClientClock ==
  (AnsweredInSequence /\ ~Stored(hist.startRows, SubmittedId(1))) =>
    /\ \A ts \in ClientTimestamps :
         resp[1].status = 429
           <=> QuotaReached(Retimed(hist.startRows, ts), Caller(1), hist.startNow)
    /\ resp[1].status # 429 =>
         /\ resp[1].status = 201
         /\ \A ts \in ClientTimestamps :
              Retimed(submissions, ts)
                = Retimed(Append(hist.startRows,
                                 SubmissionRow(RetimedRequest(ts).body, Caller(1),
                                               req[1].computed, hist.startNow)),
                          ts)

\* A client whose timestamp is decades old is refused at the quota, which is
\* filled by rows that carry the later timestamp.
C24_Witness ==
  /\ AnsweredInSequence
  /\ ~Stored(hist.startRows, SubmittedId(1))
  /\ req[1].request.body.timestamp.val = TimestampOther
  /\ \A i \in DOMAIN hist.startRows :
       hist.startRows[i].timestamp = TimestampValid
  /\ resp[1].status = 429

\* The slots that have held a request.  A request takes the first free slot,
\* so slot k is taken only while k - 1 other requests are in flight: the
\* number of these slots is the largest number of requests that were in
\* flight together.
InFlightTogether == Cardinality({p \in Procs : pc[p] # "idle"})

\* The most submissions of token 1 created in a window of 24 hours.  A
\* window that holds the most rows can be moved until it starts at the
\* creation of one of them.
MostInTrailingDay ==
  LET ends == {now} \cup {submissions[i].created_at + 24 : i \in DOMAIN submissions}
      counts == {OwnedInTrailingDay(submissions, TokenId(1), t) : t \in ends}
  IN CHOOSE c \in counts : \A d \in counts : d <= c

\* C25: when at most k requests of an identity were in flight together, the
\* submissions of the identity created in any window of 24 hours number at
\* most 100 + (k - 1); with k = 1, at most 100.
C25_BoundedOvershoot ==
  MostInTrailingDay
    <= DAILY_SUBMISSION_LIMIT
         + (IF InFlightTogether = 0 THEN 0 ELSE InFlightTogether - 1)

\* Two requests in flight together have brought the identity to 101
\* submissions in one day.
C25_Witness ==
  /\ InFlightTogether = 2
  /\ MostInTrailingDay = DAILY_SUBMISSION_LIMIT + 1

\* The body of the request of slot p parses and fails the validation.
InvalidPayload(p) ==
  /\ req[p].request.transport = "ok"
  /\ ~Validate(req[p].request.body).threw
  /\ Len(Validate(req[p].request.body).details) > 0

\* C26: a submission request is validated before its credential is resolved,
\* so a request with an invalid payload is answered with the validation
\* failure also when its credential is absent or unknown; every stored row
\* belongs to a resolved credential; and the counts of rank and percentile
\* are taken when the submission is stored.
C26_ProcessingOrder ==
  /\ (Answered(1) /\ InvalidPayload(1)) =>
       resp[1].status = 422 /\ resp[1].error = "validation_failed"
  /\ \A i \in DOMAIN submissions :
       \E j \in DOMAIN tokens : tokens[j].id = submissions[i].token_id
  /\ (req[1].kind = "results" /\ pc[1] \in {"touch", "total", "higher", "lower"})
       => Stored(submissions, SubmittedId(1))

\* The leaderboard query of slot 1 has run.
BoardQueried ==
  /\ req[1].kind = "leaderboard"
  /\ \/ pc[1] = "leaderboard_total"
     \/ pc[1] = "done"

\* C27: whatever the parameter limit holds, the limit that the leaderboard
\* query is run with is an integer from 1 to 200, and the response holds at
\* most that many entries.
C27_LimitBound ==
  BoardQueried =>
    /\ req[1].limit.type = "number"
    /\ req[1].limit.val \in 1..200
    /\ "leaderboard" \in DOMAIN req[1].result
    /\ Cardinality(req[1].result.leaderboard) <= req[1].limit.val

\* The client has its leaderboard.
BoardAnswered ==
  pc[1] = "done" /\ req[1].kind = "leaderboard" /\ resp[1].status = 200

\* C28: the best_submission_id of every entry of the leaderboard is the id of
\* a submission of the group of the entry, the submissions of its model that
\* pass the scope, the provider filter and the verified filter of the query;
\* the score percentage of that submission is the best score of the entry;
\* and it comes first in its group by score descending, timestamp descending
\* and id ascending.
C28_BestSubmission ==
  BoardAnswered =>
    \A e \in resp[1].leaderboard :
      LET group == {i \in UsedRows : submissions[i].model = e.model}
      IN \E i \in group :
           /\ e.best_submission_id = Str(submissions[i].id)
           /\ submissions[i].score_percentage = e.best_score_percentage
           /\ \A j \in group \ {i} :
                OrderedBefore(submissions[i], submissions[j])

\* C29: the key set is requested from the identity provider at most once in
\* any cache interval of 10 minutes, also by requests in flight together;
\* and a cached key set is one that the provider served, held under a time
\* no earlier than the start of the earliest refresh.
C29_RefreshBound ==
  /\ \A i, j \in DOMAIN fetches :
       i < j => fetches[j] - fetches[i] >= JWKS_CACHE_DURATION
  /\ jwksCache # Null =>
       /\ jwksCache \in KeySets
       /\ fetches # <<>>
       /\ jwksCacheTime >= fetches[1]

\* The stored submissions with a score percentage strictly greater than target
HigherRows(target) ==
  {i \in DOMAIN submissions : FracLess(target, submissions[i].score_percentage)}

\* No two of the rows have the same score percentage
PairwiseDistinct(rows) ==
  \A i, j \in rows :
    submissions[i].score_percentage = submissions[j].score_percentage => i = j

\* The rank of the detail view and the rank of the ingest response are
\* related as the claim says, for the score percentage target
RanksRelated(detail, ingest, target) ==
  /\ detail <= ingest
  /\ detail = ingest <=> PairwiseDistinct(HigherRows(target))

\* C30: for every stored submission the rank of the detail view, 1 + the
\* distinct score percentages strictly greater, is at most the rank of the
\* ingest response, 1 + the rows strictly greater, and the two are equal
\* exactly when the strictly greater rows have pairwise distinct
\* percentages; so are the ranks that the two handlers answer with.
C30_RankViewsRelated ==
  /\ \A k \in DOMAIN submissions :
       LET target == submissions[k].score_percentage
       IN RanksRelated(DistinctRank(submissions, target),
                       Rank(CountHigher(submissions, target)), target)
  /\ RankAnswered =>
       IF req[1].kind = "detail"
       THEN RanksRelated(resp[1].rank, Rank(CountHigher(submissions, Target)),
                         Target)
       ELSE RanksRelated(DistinctRank(submissions, Target), resp[1].rank,
                         Target)

\* The detail view answers rank 2 for a submission below two tied ones, which
\* the ingest response ranks third.
C30_Witness ==
  /\ RankAnswered
  /\ req[1].kind = "detail"
  /\ resp[1].rank = 2
  /\ Rank(CountHigher(submissions, Target)) = 3
  /\ ~PairwiseDistinct(HigherRows(Target))

\* The answer is Unauthorized, ValidationFailed or RateLimited
Rejected(p) == resp[p].status \in {401, 422, 429}

\* C31: a submission request that is answered Unauthorized, ValidationFailed
\* or RateLimited leaves the tables as they were when it was sent: no
\* submission is inserted, no benchmark version is created and last_used_at
\* of no token is written.
C31_RejectedIsNoOp ==
  (AnsweredInSequence /\ Rejected(1)) =>
    /\ submissions = hist.startRows
    /\ benchmark_versions = hist.startVersions
    /\ tokens = hist.startTokens

\* A submission of version v7 is refused at the quota of a stored token, and
\* v7 is in no row of benchmark_versions.
C31_Witness ==
  /\ AnsweredInSequence
  /\ resp[1].status = 429
  /\ req[1].request.body.benchmark_version = Str(VersionV7)
  /\ req[1].tokenRow # Null
  /\ \A i \in DOMAIN benchmark_versions : benchmark_versions[i].id # VersionV7

\* Slot p holds a successful answer of the ingest or of the detail view
RankReported(p) ==
  /\ pc[p] = "done"
  /\ req[p].kind \in {"results", "detail"}
  /\ resp[p].status \in {200, 201}

\* The total that the handler of slot p counted for its answer
TotalOf(p) ==
  IF req[p].kind = "results" THEN req[p].total ELSE resp[p].total_submissions

\* C32: in every answer of the ingest and of the detail view, whatever other
\* submissions and deletes run at the same time, the percentile lies between
\* 0 and 100 (in hundredths: 0 and 10000), and the rank is at least 1 and at
\* most the total that the same answer was computed from.
C32_RankAndPercentileInRange ==
  \A p \in Procs :
    RankReported(p) =>
      /\ resp[p].percentile >= 0
      /\ resp[p].percentile <= 100 * 100
      /\ resp[p].rank >= 1
      /\ resp[p].rank <= TotalOf(p)

\* Slot p holds a leaderboard computed for a query that names no version
DefaultScopeAnswered(p) ==
  /\ pc[p] = "done"
  /\ req[p].kind = "leaderboard"
  /\ resp[p].status = 200
  /\ ExplicitVersion(req[p].query) = Undefined

\* C33: a version is current when each set-current operation begins, and
\* the operations never overlap; then every leaderboard of a query without
\* a version, resolved during or after such an operation, has a scope that
\* is not empty, so it is never computed over all versions.
C33_NoUnscopedWindow ==
  \A p \in Procs :
    DefaultScopeAnswered(p) => resp[p].benchmark_versions # <<>>

\* No slot is inside the handler of POST /api/results
NoIngestInFlight ==
  \A p \in Procs : pc[p] \in {"idle", "done"} \/ req[p].kind # "results"

\* C34: while no ingest is in flight, every stored submission whose
\* benchmark_version is not NULL names a row of benchmark_versions, whatever
\* version a valid payload carries, the empty text included.
C34_VersionReferenceIntegrity ==
  NoIngestInFlight =>
    \A i \in DOMAIN submissions :
      submissions[i].benchmark_version # Null =>
        \E j \in DOMAIN benchmark_versions :
          benchmark_versions[j].id = submissions[i].benchmark_version.val

\* The confirmations of the token id that were answered with success
Winners(id) ==
  {p \in Procs : /\ pc[p] = "done"
                 /\ req[p].kind = "confirm"
                 /\ req[p].id = id
                 /\ resp[p] = Success}

\* C35: of the confirmations of one token that was not claimed, run at the
\* same time, one succeeds and every other is refused as already claimed:
\* never two of them are answered with success.
C35_OneWinner == Cardinality(Winners(TokenId(1))) <= 1

\* The tables after an answered registration of the sequential client: a
\* refused one has left them as they were; a successful one has added one
\* token and, at the end of the attempts, one attempt of the calling origin.
RegisterEffects ==
  RegistrationAnswered =>
    /\ resp[1].status = 429 =>
         /\ tokens = hist.startTokens
         /\ token_registration_limits = hist.startLimits
    /\ resp[1].status = 201 =>
         /\ Len(tokens) = Len(hist.startTokens) + 1
         /\ token_registration_limits =
              Append(hist.startLimits,
                     [ip |-> req[1].request.ip, created_at |-> hist.startNow])

\* The attempt of a registration is recorded when its token is stored
AttemptAfterToken ==
  (hist.kind = "sent" /\ req[1].kind = "register") =>
    (Len(token_registration_limits) > Len(hist.startLimits) =>
       Len(tokens) > Len(hist.startTokens))

\* A step keeps every recorded attempt as it is
AttemptsKept ==
  /\ Len(token_registration_limits') >= Len(token_registration_limits)
  /\ \A i \in DOMAIN token_registration_limits :
       token_registration_limits'[i] = token_registration_limits[i]

\* C36: a registration refused as rate limited creates no token and records
\* no attempt; every successful registration records one attempt of the
\* calling origin, after its token is stored; no step changes or removes a
\* recorded attempt.
C36_RegistrationAttempts ==
  /\ [](RegisterEffects /\ AttemptAfterToken)
  /\ [][AttemptsKept]_vars

\* the origin is refused after a registration of this behaviour, recorded
\* after the clock has moved, filled its hour
C36_Witness ==
  /\ RegistrationAnswered
  /\ resp[1].status = 429
  /\ \E i \in DOMAIN token_registration_limits :
       token_registration_limits[i].created_at > 0

\* The sequential client has the answer to a submission under the identifier
\* that the administrator deleted just before the request was sent
AnsweredAfterDelete ==
  /\ AnsweredInSequence
  /\ hist.prev.kind = "deleted"
  /\ hist.prev.row.id = SubmittedId(1)
  /\ req[1].tokenRow # Null

\* The rows that were stored before the delete, without the deleted one
KeptRows == {i \in DOMAIN hist.prev.rowsBefore :
               hist.prev.rowsBefore[i].id # hist.prev.row.id}

\* C37: a submission under the identifier of a submission that the
\* administrator has deleted is a new one: it is refused only when its owner
\* has 100 submissions of the day without the deleted row, and otherwise it
\* is answered 201, one row with the score percentage of the new payload is
\* stored, and rank and percentile are those among the other rows, without
\* the deleted one.
C37_DeleteForgetsIdentifier ==
  AnsweredAfterDelete =>
    LET before == hist.prev.rowsBefore
        body == req[1].request.body
        Higher == {i \in KeptRows :
                     body.total_score.val * before[i].score_percentage.d
                       < before[i].score_percentage.n * body.max_score.val}
        Lower == {i \in KeptRows :
                    before[i].score_percentage.n * body.max_score.val
                      < body.total_score.val * before[i].score_percentage.d}
    IN /\ resp[1].status = 429
            <=> Cardinality({i \in KeptRows :
                               before[i].token_id = Caller(1)}) >= 100
       /\ resp[1].status # 429 =>
            /\ resp[1].status = 201
            /\ Cardinality(RowsWithId(submissions, SubmittedId(1))) = 1
            /\ LET row == StoredRow(submissions, SubmittedId(1))
               IN /\ row.score_percentage.n * body.max_score.val
                       = body.total_score.val * row.score_percentage.d
                  /\ row.token_id = Caller(1)
            /\ Len(submissions) = Cardinality(KeptRows) + 1
            /\ resp[1].rank = Cardinality(Higher) + 1
            /\ resp[1].percentile
                 = Percentile(Cardinality(Lower), Cardinality(KeptRows) + 1)

\* With the deleted row, a submission of score 2/2 of another owner, the
\* caller would have had 100 submissions of the day and the rank 2.
C37_Witness ==
  /\ AnsweredAfterDelete
  /\ resp[1].status = 201
  /\ resp[1].rank = 1
  /\ hist.prev.row.score_percentage = FracOne
  /\ hist.prev.row.token_id # Caller(1)
  /\ Len(hist.prev.rowsBefore) = 100

\* The sequential client has the answer of the latest endpoint, or of the
\* public listing, and nothing has moved since
LatestAnswered == pc[1] = "done" /\ req[1].kind = "latest" /\ hist.kind = "sent"
ListingAnswered ==
  pc[1] = "done" /\ req[1].kind = "versions" /\ hist.kind = "sent"

\* The scope of a query that names no version, on the store as it is
DefaultScope ==
  resolveBenchmarkVersions(
    ScopeQuery(<<Undefined, Undefined>>, FALSE, Undefined, Undefined,
               Undefined),
    benchmark_versions)

HiddenVersions ==
  {benchmark_versions[i].id :
     i \in {j \in DOMAIN benchmark_versions : benchmark_versions[j].hidden = 1}}

\* C38: the latest endpoint returns a version exactly when the scope of a
\* query without a version is not empty, and the version it returns is in
\* that scope; neither the latest endpoint nor the public listing returns a
\* hidden version.
C38_LatestAgreesWithDefaultScope ==
  /\ LatestAnswered =>
       /\ resp[1].status = 200 <=> DefaultScope # <<>>
       /\ resp[1].status = 200 =>
            /\ \E k \in DOMAIN DefaultScope :
                 DefaultScope[k] = resp[1].version.id
            /\ resp[1].version.id \notin HiddenVersions
  /\ ListingAnswered =>
       \A k \in DOMAIN resp[1].versions :
         resp[1].versions[k].id \notin HiddenVersions
====
